---- MODULE Spec2Model ----
(***************************************************************************)
(* Model of the ranking engine (app/services/ranking_service.py) and the   *)
(* workbook writer (app/services/excel_service.py).                        *)
(*                                                                         *)
(* Conventions.                                                            *)
(*  - A cell value (a worksheet cell or a DataFrame entry) is a record     *)
(*    [t, v, s]: t = "na" (None / NaN / pd.NA), "num" (a number v) or      *)
(*    "str" (the text s).                                                  *)
(*  - Header and note texts that are Chinese in the source are written in  *)
(*    ASCII here (the name of the constant is the source's).               *)
(*  - Platform scores are integers; a composite score is the exact         *)
(*    quotient, stored in units of 1/Scale (Scale is a multiple of every   *)
(*    possible sum of weights, so the stored number is an integer).        *)
(*  - Weights are stored in tenths (0.5 -> 5).                             *)
(***************************************************************************)
EXTENDS Integers, Sequences, FiniteSets, TLC

VARIABLES
    data,              \* the DataFrame handed to the engine
    result,            \* what the last engine call returned
    excluded_entries,  \* RankingService._excluded_entries
    fs,                \* the filesystem: path -> file content (or NoFile)
    ret                \* how the last call ended, and what it did

vars == <<data, result, excluded_entries, fs, ret>>

----------------------------------------------------------------------------
(* Bounds of the model *)

MaxRows == 2        \* rows of an engine input
MaxColumnRows == 3  \* rows of a column ranked on its own
MaxScore == 2       \* largest platform score
MaxSheetRows == 3   \* data rows of an input worksheet
MaxRuns == 2        \* runs of the pipeline in one behaviour
MaxLinkRows == 2    \* data rows of a worksheet of the column runs
MaxCommitRows == 2  \* data rows of a worksheet of the commit runs
MaxReadRows == 3    \* data rows of a worksheet read on its own
MaxReuseRows == 2   \* rows of an input of a reused engine
MaxCalls == 3       \* calls of process_rankings on one engine
MaxInsertHeaders == 5  \* total and rank headers of a sheet given to the insertion

----------------------------------------------------------------------------
(* Cell values *)

NA == [t |-> "na", v |-> 0, s |-> ""]
Num(n) == [t |-> "num", v |-> n, s |-> ""]
Str(x) == [t |-> "str", v |-> 0, s |-> x]

\* pd.isna / pd.notna on a scalar
IsNa(c) == c.t = "na"

Range(f) == {f[i] : i \in DOMAIN f}

\* the same sequence / mapping, built once (TLC would otherwise keep the
\* constructor and re-evaluate it at every use)
AsSeq(f) == f \o <<>>
AsMap(f) == f @@ <<>>

----------------------------------------------------------------------------
(* app/config/constants.py *)

ORIGINAL_NAME == "OriginalName"
TRANSLATED_NAME == "TranslatedName"
BANGUMI_SCORE == "Bangumi"
BANGUMI_TOTAL == "Bangumi_total"
BANGUMI_RANK == "Bangumi_Rank"
ANILIST_SCORE == "Anilist"
ANILIST_TOTAL == "Anilist_total"
ANILIST_RANK == "Anilist_Rank"
MYANIMELIST_SCORE == "MyAnimelist"
MYANIMELIST_TOTAL == "MyAnimelist_total"
MYANIMELIST_RANK == "Myanimelist_Rank"
FILMARKS_SCORE == "Filmarks"
FILMARKS_TOTAL == "Filmarks_total"
FILMARKS_RANK == "Filmarks_Rank"
COMPREHENSIVE_SCORE == "ComprehensiveScore"
RANKING == "Ranking"
NOTES == "Notes"

EXCLUDED_NOTES == {"*insufficient-runtime", "*insufficient-data"}

\* the items of COMPREHENSIVE_SCORE_WEIGHTS in dictionary order, weights in tenths
COMPREHENSIVE_SCORE_WEIGHTS ==
    << [col |-> BANGUMI_SCORE, weight |-> 5],
       [col |-> ANILIST_SCORE, weight |-> 2],
       [col |-> MYANIMELIST_SCORE, weight |-> 1],
       [col |-> FILMARKS_SCORE, weight |-> 2] >>

\* the values of PLATFORM_COLUMNS in dictionary order
PLATFORM_COLUMNS ==
    << [platform |-> "Bangumi", score |-> BANGUMI_SCORE, rank |-> BANGUMI_RANK,
        total |-> BANGUMI_TOTAL],
       [platform |-> "Anilist", score |-> ANILIST_SCORE, rank |-> ANILIST_RANK,
        total |-> ANILIST_TOTAL],
       [platform |-> "MyAnimeList", score |-> MYANIMELIST_SCORE,
        rank |-> MYANIMELIST_RANK, total |-> MYANIMELIST_TOTAL],
       [platform |-> "Filmarks", score |-> FILMARKS_SCORE, rank |-> FILMARKS_RANK,
        total |-> FILMARKS_TOTAL] >>

COMPREHENSIVE_RANKING_COLUMN == RANKING

\* every sum of weights (in tenths) divides Scale
Scale == 5 * 7 * 8 * 9

----------------------------------------------------------------------------
(* DataFrames: a set of column names and a sequence of rows, each row a    *)
(* function from the column names to cell values.                          *)

EmptyFrame == [columns |-> {}, rows |-> <<>>]

\* no RankingResult yet
NoResult == [none |-> TRUE]

\* an Optional[DataFrame] attribute: None, or a frame
None == [is_none |-> TRUE, df |-> EmptyFrame]
Some(df) == [is_none |-> FALSE, df |-> df]

\* DataFrame.empty
IsEmpty(df) == Len(df.rows) = 0 \/ df.columns = {}

\* df[col] = values   (values: one cell per row)
SetColumn(df, col, values) ==
    [columns |-> df.columns \cup {col},
     rows |-> AsSeq([i \in 1..Len(df.rows) |->
                  AsMap([c \in df.columns \cup {col} |->
                      IF c = col THEN values[i] ELSE df.rows[i][c]])])]

\* df[col] = pd.NA
SetColumnNa(df, col) == SetColumn(df, col, AsSeq([i \in 1..Len(df.rows) |-> NA]))

\* df[col] as a sequence
Column(df, col) == AsSeq([i \in 1..Len(df.rows) |-> df.rows[i][col]])

\* df[mask]: the rows whose mask entry is TRUE, in order
RECURSIVE SelectRows(_, _)
SelectRows(rows, mask) ==
    IF rows = <<>> THEN <<>>
    ELSE IF Head(mask) THEN <<Head(rows)>> \o SelectRows(Tail(rows), Tail(mask))
         ELSE SelectRows(Tail(rows), Tail(mask))

----------------------------------------------------------------------------
(* RankingService._calculate_ranking: pandas Series.rank on the coerced    *)
(* column, with the service's ranking configuration.                       *)

\* RankingService.__init__: self._ranking_config
ranking_config_dense == [method |-> "dense", ascending |-> FALSE, na_option |-> "keep"]
ranking_config_ascending == [method |-> "min", ascending |-> TRUE, na_option |-> "keep"]
ranking_config == [method |-> "min", ascending |-> FALSE, na_option |-> "keep"]

\* pd.to_numeric(series, errors='coerce'), cell by cell
\* variant: a text is read as the number 0
ToNumericCoerce_TextAsZero(c) == IF c.t = "num" THEN c ELSE IF c.t = "str" THEN Num(0) ELSE NA

ToNumericCoerce(c) == IF c.t = "num" THEN c ELSE NA

\* insert n into a sequence sorted with best-first order
RECURSIVE InsertSorted(_, _, _)
InsertSorted(sorted, n, ascending) ==
    IF sorted = <<>> THEN <<n>>
    ELSE IF (IF ascending THEN n <= Head(sorted) ELSE n >= Head(sorted))
         THEN <<n>> \o sorted
         ELSE <<Head(sorted)>> \o InsertSorted(Tail(sorted), n, ascending)

\* the numeric values of a coerced column, sorted best first
RECURSIVE SortedValues(_, _)
SortedValues(cells, ascending) ==
    IF cells = <<>> THEN <<>>
    ELSE IF Head(cells).t = "num"
         THEN InsertSorted(SortedValues(Tail(cells), ascending), Head(cells).v, ascending)
         ELSE SortedValues(Tail(cells), ascending)

\* positions (1-based) that the value n occupies in the sorted order
Positions(sorted, n) == {k \in 1..Len(sorted) : sorted[k] = n}

SetMin(S) == CHOOSE x \in S : \A y \in S : x <= y
SetMax(S) == CHOOSE x \in S : \A y \in S : x >= y

\* the rank pandas gives the numeric cell at row i (twice the rank, so that
\* method "average" stays in the integers)
TwiceRank(cells, i, cfg) ==
    LET sorted == SortedValues(cells, cfg.ascending)
        pos == Positions(sorted, cells[i].v)
        lo == SetMin(pos)
        hi == SetMax(pos)
    IN  CASE cfg.method = "min" -> 2 * lo
          [] cfg.method = "max" -> 2 * hi
          [] cfg.method = "average" -> lo + hi
          [] cfg.method = "dense" ->
                2 * Cardinality({sorted[k] : k \in 1..lo})
          [] cfg.method = "first" ->
                2 * (lo + Cardinality({j \in 1..(i - 1) :
                                          cells[j].t = "num" /\ cells[j].v = cells[i].v}))

\* scores.rank(method, ascending, na_option="keep"): NaN stays NaN
SeriesRank(cells, cfg) ==
    AsSeq([i \in 1..Len(cells) |->
        IF cells[i].t = "num" THEN Num(TwiceRank(cells, i, cfg)) ELSE NA])

\* _calculate_ranking(data, score_col, rank_col) with the configuration cfg
CalculateRankingWith(df, score_col, rank_col, cfg) ==
    IF IsEmpty(df) THEN df
    ELSE IF score_col \notin df.columns THEN SetColumnNa(df, rank_col)
    ELSE LET scores == AsSeq([i \in 1..Len(df.rows) |->
                                  ToNumericCoerce(df.rows[i][score_col])])
             twice == SeriesRank(scores, cfg)
         IN  IF \A i \in 1..Len(scores) : IsNa(scores[i])
             THEN SetColumnNa(df, rank_col)
             \* ranks.astype('Int64') raises on a fractional rank; the handler
             \* of _calculate_ranking then sets the whole column to pd.NA
             ELSE IF \E i \in 1..Len(twice) : twice[i].t = "num" /\ twice[i].v % 2 # 0
             THEN SetColumnNa(df, rank_col)
             ELSE SetColumn(df, rank_col,
                     AsSeq([i \in 1..Len(twice) |->
                         IF twice[i].t = "num" THEN Num(twice[i].v \div 2) ELSE NA]))

CalculateRanking(df, score_col, rank_col) ==
    CalculateRankingWith(df, score_col, rank_col, ranking_config)

----------------------------------------------------------------------------
(* RankingService._filter_entries *)

\* data[notes_col].fillna('')
FillNa(c) == IF IsNa(c) THEN Str("") ELSE c

\* variant: the notes are trimmed before the comparison
IsExcludedNote_Trimmed(c) ==
    c.t = "str" /\ \E x \in EXCLUDED_NOTES : c.s \in {x, " " \o x \o " "}

\* .isin(EXCLUDED_NOTES), cell by cell: no trimming, exact match
IsExcludedNote(c) == c.t = "str" /\ c.s \in EXCLUDED_NOTES

\* a slip the partition rules out: the excluded rows are not kept
FilterEntries_DropExcluded(df) ==
    IF NOTES \notin df.columns
    THEN [valid |-> df, excluded |-> EmptyFrame]
    ELSE [valid |-> [columns |-> df.columns,
                     rows |-> SelectRows(df.rows,
                                 [i \in 1..Len(df.rows) |->
                                     ~IsExcludedNote(FillNa(df.rows[i][NOTES]))])],
          excluded |-> EmptyFrame]

\* returns the filtered frame and the new value of self._excluded_entries
FilterEntries(df) ==
    IF NOTES \notin df.columns
    THEN [valid |-> df, excluded |-> EmptyFrame]
    ELSE LET excluded_mask ==
                 AsSeq([i \in 1..Len(df.rows) |->
                           IsExcludedNote(FillNa(df.rows[i][NOTES]))])
             keep_mask == AsSeq([i \in 1..Len(df.rows) |-> ~excluded_mask[i]])
         IN  [valid |-> [columns |-> df.columns,
                         rows |-> SelectRows(df.rows, keep_mask)],
              excluded |-> [columns |-> df.columns,
                            rows |-> SelectRows(df.rows, excluded_mask)]]

----------------------------------------------------------------------------
(* RankingService._calculate_comprehensive_score *)

\* the loop over COMPREHENSIVE_SCORE_WEIGHTS.items() for one row, from item k:
\* the weighted sum, the sum of weights and the number of valid scores.
\* pd.to_numeric(value, errors='raise') raises on a text (the platform is
\* skipped) and gives NaN for None.
\* variant: a text in a score cell ends the record's computation
RECURSIVE CollectScores_TextAborts(_, _, _)
CollectScores_TextAborts(row, columns, k) ==
    IF k > Len(COMPREHENSIVE_SCORE_WEIGHTS)
    THEN [weighted_sum |-> 0, total_weight |-> 0, count |-> 0]
    ELSE LET item == COMPREHENSIVE_SCORE_WEIGHTS[k]
             rest == CollectScores_TextAborts(row, columns, k + 1)
         IN  IF item.col \notin columns THEN rest
             ELSE IF row[item.col].t = "str"
                  THEN [weighted_sum |-> 0, total_weight |-> 0, count |-> 0 - 9]
             ELSE IF row[item.col].t = "num" /\ row[item.col].v >= 0
                  THEN [weighted_sum |-> rest.weighted_sum + row[item.col].v * item.weight,
                        total_weight |-> rest.total_weight + item.weight,
                        count |-> rest.count + 1]
                  ELSE rest

RECURSIVE CollectScores(_, _, _)
CollectScores(row, columns, k) ==
    IF k > Len(COMPREHENSIVE_SCORE_WEIGHTS)
    THEN [weighted_sum |-> 0, total_weight |-> 0, count |-> 0]
    ELSE LET item == COMPREHENSIVE_SCORE_WEIGHTS[k]
             rest == CollectScores(row, columns, k + 1)
         IN  IF item.col \notin columns THEN rest
             ELSE IF row[item.col].t = "num" /\ row[item.col].v >= 0
                  THEN [weighted_sum |-> rest.weighted_sum + row[item.col].v * item.weight,
                        total_weight |-> rest.total_weight + item.weight,
                        count |-> rest.count + 1]
                  ELSE rest

\* variant: a record without scores gets the composite score 0
RowComprehensiveScore_ZeroWhenEmpty(row, columns) ==
    LET got == CollectScores(row, columns, 1)
    IN  IF got.count > 0 /\ got.total_weight > 0
        THEN Num((got.weighted_sum * Scale) \div got.total_weight)
        ELSE Num(0)

\* a slip the renormalisation rules out: dividing by the sum of all four weights
RowComprehensiveScore_FixedWeights(row, columns) ==
    LET got == CollectScores(row, columns, 1)
    IN  IF got.count > 0 THEN Num((got.weighted_sum * Scale) \div 10) ELSE NA

\* the value stored in the composite column for one row
RowComprehensiveScore(row, columns) ==
    LET got == CollectScores(row, columns, 1)
    IN  IF got.count > 0 /\ got.total_weight > 0
        THEN LET comprehensive_score == (got.weighted_sum * Scale) \div got.total_weight
             IN  IF comprehensive_score >= 0 THEN Num(comprehensive_score) ELSE NA
        ELSE NA

CalculateComprehensiveScore(df) ==
    IF IsEmpty(df) THEN df
    ELSE SetColumn(df, COMPREHENSIVE_SCORE,
             AsSeq([i \in 1..Len(df.rows) |->
                       RowComprehensiveScore(df.rows[i], df.columns)]))

----------------------------------------------------------------------------
(* RankingService._add_ranking_columns_to_excluded *)

RECURSIVE AddNaColumns(_, _, _)
AddNaColumns(df, cols, present) ==
    IF cols = <<>> THEN df
    ELSE AddNaColumns(IF Head(cols) \in present THEN SetColumnNa(df, Head(cols)) ELSE df,
                      Tail(cols), present)

AddRankingColumnsToExcluded(valid_data, excluded) ==
    IF IsEmpty(excluded) THEN excluded
    ELSE AddNaColumns(excluded,
             [k \in 1..Len(PLATFORM_COLUMNS) |-> PLATFORM_COLUMNS[k].rank]
                 \o <<COMPREHENSIVE_SCORE, COMPREHENSIVE_RANKING_COLUMN>>,
             valid_data.columns)

----------------------------------------------------------------------------
(* app/models/data_models.py: RankingResult, with __post_init__ *)

RankingResult(valid_data, excluded_data, errors, warnings) ==
    LET total_valid == Len(valid_data.rows)
        total_excluded == Len(excluded_data.rows)
    IN  [valid_data |-> valid_data,
         excluded_data |-> excluded_data,
         total_processed |-> total_valid + total_excluded,
         total_valid |-> total_valid,
         total_excluded |-> total_excluded,
         errors |-> errors,
         warnings |-> warnings]

----------------------------------------------------------------------------
(* RankingService.validate_data, with the DataValidator checks it calls:   *)
(* TRUE when no ValidationError is raised.                                 *)

ValidateData(df) ==
    /\ ~IsEmpty(df)
    /\ ORIGINAL_NAME \in df.columns
    /\ NOTES \in df.columns
    /\ \A i \in 1..Len(df.rows) : ~IsNa(df.rows[i][ORIGINAL_NAME])
    /\ \A i, j \in 1..Len(df.rows) :
           i # j => df.rows[i][ORIGINAL_NAME] # df.rows[j][ORIGINAL_NAME]

----------------------------------------------------------------------------
(* RankingService.process_rankings *)

\* step 4: the loop over PLATFORM_COLUMNS from item k; returns the frame and
\* the warnings appended
\* variant: a missing score column is passed over without a warning
RECURSIVE RankPlatforms_SilentMissing(_, _, _)
RankPlatforms_SilentMissing(df, warnings, k) ==
    IF k > Len(PLATFORM_COLUMNS) THEN [df |-> df, warnings |-> warnings]
    ELSE LET p == PLATFORM_COLUMNS[k]
         IN  IF p.score \in df.columns
             THEN RankPlatforms_SilentMissing(CalculateRanking(df, p.score, p.rank),
                                              warnings, k + 1)
             ELSE RankPlatforms_SilentMissing(SetColumnNa(df, p.rank), warnings, k + 1)

\* variant: a missing score column ends the loop
RECURSIVE RankPlatforms_StopAtMissing(_, _, _)
RankPlatforms_StopAtMissing(df, warnings, k) ==
    IF k > Len(PLATFORM_COLUMNS) THEN [df |-> df, warnings |-> warnings]
    ELSE LET p == PLATFORM_COLUMNS[k]
         IN  IF p.score \in df.columns
             THEN RankPlatforms_StopAtMissing(CalculateRanking(df, p.score, p.rank),
                                              warnings, k + 1)
             ELSE [df |-> SetColumnNa(df, p.rank),
                   warnings |-> Append(warnings, "missing score column " \o p.score)]

RECURSIVE RankPlatforms(_, _, _)
RankPlatforms(df, warnings, k) ==
    IF k > Len(PLATFORM_COLUMNS) THEN [df |-> df, warnings |-> warnings]
    ELSE LET p == PLATFORM_COLUMNS[k]
         IN  IF p.score \in df.columns
             THEN RankPlatforms(CalculateRanking(df, p.score, p.rank), warnings, k + 1)
             ELSE RankPlatforms(SetColumnNa(df, p.rank),
                                Append(warnings, "missing score column " \o p.score),
                                k + 1)

\* variant: the outer handler returns the excluded rows the service still holds
ProcessRankings_StaleExcluded(df, previous) ==
    IF ~ValidateData(df)
    THEN [result |-> RankingResult(df, IF previous.is_none THEN EmptyFrame ELSE previous.df,
                                   <<"fatal error">>, <<>>),
          excluded_entries |-> previous]
    ELSE LET f == FilterEntries(df)
         IN  IF IsEmpty(f.valid)
             THEN [result |-> RankingResult(f.valid, f.excluded, <<>>,
                                            <<"no valid data after filtering">>),
                   excluded_entries |-> Some(f.excluded)]
             ELSE LET scored == CalculateComprehensiveScore(f.valid)
                      ranked == IF COMPREHENSIVE_SCORE \in scored.columns
                                THEN CalculateRanking(scored, COMPREHENSIVE_SCORE,
                                                      COMPREHENSIVE_RANKING_COLUMN)
                                ELSE scored
                      done == RankPlatforms(ranked, <<>>, 1)
                      excluded == AddRankingColumnsToExcluded(done.df, f.excluded)
                  IN  [result |-> RankingResult(done.df, excluded, <<>>, done.warnings),
                       excluded_entries |-> Some(excluded)]

\* the whole call: the RankingResult returned and the value the call leaves
\* in self._excluded_entries (previous: its value before the call)
ProcessRankings(df, previous) ==
    IF ~ValidateData(df)
    THEN \* the outer handler: "return the basic result"
         [result |-> RankingResult(df, EmptyFrame, <<"fatal error">>, <<>>),
          excluded_entries |-> previous]
    ELSE LET f == FilterEntries(df)
         IN  IF IsEmpty(f.valid)
             THEN [result |-> RankingResult(f.valid, f.excluded, <<>>,
                                            <<"no valid data after filtering">>),
                   excluded_entries |-> Some(f.excluded)]
             ELSE LET scored == CalculateComprehensiveScore(f.valid)
                      ranked == IF COMPREHENSIVE_SCORE \in scored.columns
                                THEN CalculateRanking(scored, COMPREHENSIVE_SCORE,
                                                      COMPREHENSIVE_RANKING_COLUMN)
                                ELSE scored
                      done == RankPlatforms(ranked, <<>>, 1)
                      excluded == AddRankingColumnsToExcluded(done.df, f.excluded)
                  IN  [result |-> RankingResult(done.df, excluded, <<>>, done.warnings),
                       excluded_entries |-> Some(excluded)]

----------------------------------------------------------------------------
(* Worksheets (openpyxl): a grid of cell values, rows[r][c] for sheet row r *)
(* and column c, all rows of the same width, and the hyperlinks, each on   *)
(* one cell. Row 1 is the banner, row 2 the header row, data from row 3.   *)
(* Fills, borders and alignments are not part of the model.                *)

header_row == 2

MaxRow(ws) == Len(ws.rows)
MaxColumn(ws) == IF ws.rows = <<>> THEN 0 ELSE Len(ws.rows[1])

\* ws.cell(row, column).value ; None outside the grid
CellValue(ws, r, c) ==
    IF r \in 1..MaxRow(ws) /\ c \in 1..MaxColumn(ws) THEN ws.rows[r][c] ELSE NA

\* str(value).strip() for the texts of the model: blanks only around these
Strip(x) ==
    CASE x = " " -> ""
      [] x = " *insufficient-runtime " -> "*insufficient-runtime"
      [] x = " Bangumi_total" -> "Bangumi_total"
      [] OTHER -> x

\* Python truth of a cell value ("if cell_value:")
Truthy(c) == (c.t = "str" /\ c.s # "") \/ (c.t = "num" /\ c.v # 0)

\* the grid widened / lengthened with empty cells to hold cell (r, c)
Extend(rows, r, c) ==
    LET height == IF r > Len(rows) THEN r ELSE Len(rows)
        old_width == IF rows = <<>> THEN 0 ELSE Len(rows[1])
        width == IF c > old_width THEN c ELSE old_width
    IN  AsSeq([i \in 1..height |->
            AsSeq([j \in 1..width |->
                IF i <= Len(rows) /\ j <= old_width THEN rows[i][j] ELSE NA])])

\* ws.cell(row=r, column=c).value = value
SetCell(ws, r, c, value) ==
    LET grid == Extend(ws.rows, r, c)
    IN  [ws EXCEPT !.rows = [grid EXCEPT ![r] = [grid[r] EXCEPT ![c] = value]]]

\* variant: no column is made, the new header lands on the cell at idx
InsertCols_NoShift(ws, idx) == ws

\* ws.insert_cols(idx): the cells at idx and to its right move one column
\* right, each with its hyperlink
InsertCols(ws, idx) ==
    [rows |-> AsSeq([r \in 1..MaxRow(ws) |->
                  AsSeq([c \in 1..(MaxColumn(ws) + 1) |->
                      IF c < idx THEN ws.rows[r][c]
                      ELSE IF c = idx THEN NA
                      ELSE ws.rows[r][c - 1]])]),
     links |-> {[l EXCEPT !.col = IF l.col >= idx THEN l.col + 1 ELSE l.col] : l \in ws.links}]

\* a {name: col_idx} map over the truthy cells of the header row, a later
\* column replacing an earlier one of the same name; the names are
\* str(value).strip() when strip is TRUE and the raw values otherwise
RECURSIVE HeaderMapFrom(_, _, _, _)
HeaderMapFrom(ws, c, map, strip) ==
    IF c > MaxColumn(ws) THEN map
    ELSE LET v == CellValue(ws, header_row, c)
             name == IF strip THEN Strip(v.s) ELSE v.s
         IN  HeaderMapFrom(ws, c + 1,
                 IF Truthy(v)
                 THEN AsMap([n \in DOMAIN map \cup {name} |->
                                IF n = name THEN c ELSE map[n]])
                 ELSE map,
                 strip)

EmptyMap == [n \in {} |-> 0]

\* current_columns of _insert_ranking_columns, column_name_to_index of
\* _reapply_hyperlinks
HeaderMap(ws) == HeaderMapFrom(ws, 1, EmptyMap, TRUE)

\* final_col_map of _write_ranking_result
FinalColMap(ws) == HeaderMapFrom(ws, 1, EmptyMap, FALSE)

----------------------------------------------------------------------------
(* ExcelService._insert_ranking_columns *)

\* variant: the map keeps the old indices after an insertion
InsertRankingColumn_NoMapShift(ws, current_columns, warnings, k) ==
    LET rank_col == PLATFORM_COLUMNS[k].rank
        total_col == PLATFORM_COLUMNS[k].total
    IN  IF rank_col \in DOMAIN current_columns
        THEN [ws |-> ws, current_columns |-> current_columns, warnings |-> warnings]
        ELSE IF total_col \notin DOMAIN current_columns
        THEN [ws |-> ws, current_columns |-> current_columns,
              warnings |-> Append(warnings, "no total column for " \o rank_col)]
        ELSE LET insert_position == current_columns[total_col] + 1
             IN  [ws |-> SetCell(InsertCols(ws, insert_position),
                                 header_row, insert_position, Str(rank_col)),
                  current_columns |->
                      AsMap([n \in DOMAIN current_columns \cup {rank_col} |->
                          IF n = rank_col THEN insert_position
                          ELSE current_columns[n]]),
                  warnings |-> warnings]

\* variant: a missing total column ends the loop: no later rank column is
\* looked at
InsertRankingColumn_StopAtMissingTotal(ws, current_columns, warnings, k) ==
    LET rank_col == PLATFORM_COLUMNS[k].rank
        total_col == PLATFORM_COLUMNS[k].total
        stopped == \E w \in Range(warnings) : TRUE
    IN  IF stopped \/ rank_col \in DOMAIN current_columns
        THEN [ws |-> ws, current_columns |-> current_columns, warnings |-> warnings]
        ELSE IF total_col \notin DOMAIN current_columns
        THEN [ws |-> ws, current_columns |-> current_columns,
              warnings |-> Append(warnings, "no total column for " \o rank_col)]
        ELSE LET insert_position == current_columns[total_col] + 1
             IN  [ws |-> SetCell(InsertCols(ws, insert_position),
                                 header_row, insert_position, Str(rank_col)),
                  current_columns |->
                      AsMap([n \in DOMAIN current_columns \cup {rank_col} |->
                          IF n = rank_col THEN insert_position
                          ELSE IF current_columns[n] >= insert_position
                               THEN current_columns[n] + 1
                               ELSE current_columns[n]]),
                  warnings |-> warnings]

\* the body of the loop over ranking_configs for item k; current_columns is
\* the name -> index map the loop maintains
InsertRankingColumn(ws, current_columns, warnings, k) ==
    LET rank_col == PLATFORM_COLUMNS[k].rank
        total_col == PLATFORM_COLUMNS[k].total
    IN  IF rank_col \in DOMAIN current_columns
        THEN [ws |-> ws, current_columns |-> current_columns, warnings |-> warnings]
        ELSE IF total_col \notin DOMAIN current_columns
        THEN [ws |-> ws, current_columns |-> current_columns,
              warnings |-> Append(warnings, "no total column for " \o rank_col)]
        ELSE LET insert_position == current_columns[total_col] + 1
             IN  [ws |-> SetCell(InsertCols(ws, insert_position),
                                 header_row, insert_position, Str(rank_col)),
                  current_columns |->
                      AsMap([n \in DOMAIN current_columns \cup {rank_col} |->
                          IF n = rank_col THEN insert_position
                          ELSE IF current_columns[n] >= insert_position
                               THEN current_columns[n] + 1
                               ELSE current_columns[n]]),
                  warnings |-> warnings]

\* the loop over ranking_configs from item k
RECURSIVE InsertRankingColumnsFrom(_, _, _, _)
InsertRankingColumnsAfter(step, k) ==
    InsertRankingColumnsFrom(step.ws, step.current_columns, step.warnings, k)

InsertRankingColumnsFrom(ws, current_columns, warnings, k) ==
    IF k > Len(PLATFORM_COLUMNS)
    THEN [ws |-> ws, current_columns |-> current_columns, warnings |-> warnings]
    ELSE InsertRankingColumnsAfter(
             InsertRankingColumn(ws, current_columns, warnings, k), k + 1)

\* variant: the header scan does not see the rank columns already there
InsertRankingColumns_IgnoreExisting(ws) ==
    LET scanned == HeaderMap(ws)
        RankNames == {PLATFORM_COLUMNS[k].rank : k \in 1..Len(PLATFORM_COLUMNS)}
    IN  InsertRankingColumnsFrom(ws,
            AsMap([n \in DOMAIN scanned \ RankNames |-> scanned[n]]), <<>>, 1)

InsertRankingColumns(ws) == InsertRankingColumnsFrom(ws, HeaderMap(ws), <<>>, 1)

----------------------------------------------------------------------------
(* The filesystem: a file is absent, or holds a workbook (its active sheet) *)

EmptySheet == [rows |-> <<>>, links |-> {}]
NoFile == [exists |-> FALSE, ws |-> EmptySheet]
File(ws) == [exists |-> TRUE, ws |-> ws]

\* the path the hyperlink relocation reads the original header row from
ORIGINAL_WORKBOOK == "mzzb.xlsx"
TempPath == "tmp.xlsx"
BackupPath(final_path) == final_path \o ".backup"

\* shutil.move(src, dst): a rename, replacing dst
Move(files, src, dst) ==
    [p \in DOMAIN files |-> IF p = dst THEN files[src]
                            ELSE IF p = src THEN NoFile ELSE files[p]]

\* os.remove / os.unlink
Remove(files, path) == [files EXCEPT ![path] = NoFile]

----------------------------------------------------------------------------
(* ExcelService._collect_hyperlinks and _reapply_hyperlinks *)

\* {(row, column): {'hyperlink': ..., 'value': ...}}
CollectHyperlinks(ws) ==
    {[row |-> l.row, col |-> l.col, target |-> l.target,
      value |-> CellValue(ws, l.row, l.col)] : l \in ws.links}

\* the first entry of the dictionary: rows top down, cells left to right
FirstLink(hyperlinks) ==
    CHOOSE l \in hyperlinks :
        \A m \in hyperlinks : l.row < m.row \/ (l.row = m.row /\ l.col <= m.col)

\* target_cell.hyperlink = link ; the value only into an empty cell
AttachLink(ws, r, c, link) ==
    LET placed == [ws EXCEPT !.links = {l \in ws.links : ~(l.row = r /\ l.col = c)}
                                          \cup {[row |-> r, col |-> c, target |-> link.target]}]
    IN  IF IsNa(CellValue(ws, r, c)) THEN SetCell(placed, r, c, link.value) ELSE placed

\* {col_idx: str(value).strip()} over the truthy header cells
ColumnNames(ws) ==
    AsMap([c \in {c \in 1..MaxColumn(ws) : Truthy(CellValue(ws, header_row, c))} |->
              Strip(CellValue(ws, header_row, c).s)])

\* the loop over the collected hyperlinks
RECURSIVE ReapplyLoop(_, _, _, _)
ReapplyLoop(ws, hyperlinks, original_columns, column_name_to_index) ==
    IF hyperlinks = {} THEN ws
    ELSE LET link == FirstLink(hyperlinks)
             rest == hyperlinks \ {link}
         IN  IF link.col \notin DOMAIN original_columns
             THEN ReapplyLoop(ws, rest, original_columns, column_name_to_index)
             ELSE IF original_columns[link.col] \notin DOMAIN column_name_to_index
             THEN ReapplyLoop(ws, rest, original_columns, column_name_to_index)
             ELSE LET new_col == column_name_to_index[original_columns[link.col]]
                  IN  IF new_col <= MaxColumn(ws)
                      THEN ReapplyLoop(AttachLink(ws, link.row, new_col, link), rest,
                                       original_columns, column_name_to_index)
                      ELSE ReapplyLoop(ws, rest, original_columns, column_name_to_index)

\* the original header names are read from the workbook at original_path
ReapplyHyperlinksFrom(ws, hyperlinks, files, original_path) ==
    LET cleared == [ws EXCEPT !.links = {}]
    IN  IF ~files[original_path].exists
        THEN cleared    \* "cannot read the original file": logged, return
        ELSE ReapplyLoop(cleared, hyperlinks, ColumnNames(files[original_path].ws),
                         HeaderMap(cleared))

ReapplyHyperlinks(ws, hyperlinks, files) ==
    ReapplyHyperlinksFrom(ws, hyperlinks, files, ORIGINAL_WORKBOOK)

----------------------------------------------------------------------------
(* ExcelService._write_data_to_worksheet *)

\* the three branches that decide what a cell receives
ValueToWrite(value) ==
    IF value.t = "str" /\ value.s = "NaN" THEN Str("NaN")
    ELSE IF IsNa(value) THEN NA
    ELSE value

\* variant: of the rows carrying the key the last one is used
FirstWithKey_Last(rows, key) ==
    rows[SetMax({i \in 1..Len(rows) : rows[i][ORIGINAL_NAME] = key})]

\* valid_data.drop_duplicates(subset=[key_col]).set_index(key_col)
\*     .to_dict('index')[key]: the first row carrying the key
FirstWithKey(rows, key) ==
    rows[SetMin({i \in 1..Len(rows) : rows[i][ORIGINAL_NAME] = key})]

HasKey(rows, key) == \E i \in 1..Len(rows) : rows[i][ORIGINAL_NAME] = key

\* the sheet rows (header_row + 1 .. max_row) whose key cell matches a valid
\* record
MatchedRows(ws, valid_data, final_col_map) ==
    LET key_idx == IF ORIGINAL_NAME \in DOMAIN final_col_map
                   THEN final_col_map[ORIGINAL_NAME] ELSE 1
    IN  {r \in (header_row + 1)..MaxRow(ws) :
            /\ Truthy(CellValue(ws, r, key_idx))
            /\ HasKey(valid_data.rows, CellValue(ws, r, key_idx))}

\* the in-place pass: every mapped column of the record except the key
WriteValidRows(ws, valid_data, final_col_map) ==
    LET key_idx == IF ORIGINAL_NAME \in DOMAIN final_col_map
                   THEN final_col_map[ORIGINAL_NAME] ELSE 1
        matched == MatchedRows(ws, valid_data, final_col_map)
        written == {n \in DOMAIN final_col_map : n \in valid_data.columns \ {ORIGINAL_NAME}}
    IN  [ws EXCEPT !.rows =
            AsSeq([r \in 1..MaxRow(ws) |->
                IF r \notin matched THEN ws.rows[r]
                ELSE LET source_row_data ==
                             FirstWithKey(valid_data.rows, CellValue(ws, r, key_idx))
                     IN  AsSeq([c \in 1..MaxColumn(ws) |->
                            IF \E n \in written : final_col_map[n] = c
                            THEN ValueToWrite(source_row_data[
                                     CHOOSE n \in written : final_col_map[n] = c])
                            ELSE ws.rows[r][c]])])]

\* the row the first excluded record is written to
ExcludedStartRow(valid_rows_written) == header_row + 1 + valid_rows_written + 2

\* the appended pass: every mapped column, empty where the record has none
WriteExcludedRows(ws, excluded_data, final_col_map, start_row) ==
    IF IsEmpty(excluded_data) \/ DOMAIN final_col_map = {} THEN ws
    ELSE LET last == start_row + Len(excluded_data.rows) - 1
             grid == Extend(ws.rows, last, MaxColumn(ws))
         IN  [ws EXCEPT !.rows =
                AsSeq([r \in 1..Len(grid) |->
                    IF r < start_row \/ r > last THEN grid[r]
                    ELSE LET row_data == excluded_data.rows[r - start_row + 1]
                         IN  AsSeq([c \in 1..Len(grid[r]) |->
                                IF \E n \in DOMAIN final_col_map : final_col_map[n] = c
                                THEN LET n == CHOOSE n \in DOMAIN final_col_map :
                                                  final_col_map[n] = c
                                     IN  IF n \in excluded_data.columns
                                         THEN ValueToWrite(row_data[n]) ELSE NA
                                ELSE grid[r][c]])])]

\* the whole step; ok is FALSE when it raises (no key column to index by)
WriteDataToWorksheet(ws, valid_data, excluded_data, final_col_map) ==
    IF ORIGINAL_NAME \notin valid_data.columns
    THEN [ok |-> FALSE, ws |-> ws]
    ELSE LET valid_rows_written == Cardinality(MatchedRows(ws, valid_data, final_col_map))
         IN  [ok |-> TRUE,
              ws |-> WriteExcludedRows(WriteValidRows(ws, valid_data, final_col_map),
                                       excluded_data, final_col_map,
                                       ExcludedStartRow(valid_rows_written))]

----------------------------------------------------------------------------
(* ExcelService._atomic_move_file. faults: the filesystem operations that   *)
(* fail when attempted ("backup", "install", "remove", "restore"); a failed *)
(* operation changes nothing. failed: the operations that did fail.         *)

\* variant: the handler does not restore the backup
AtomicMoveFile_NoRestore(files, temp_path, final_path, faults) ==
    LET backup_path == BackupPath(final_path)
    IN  IF files[final_path].exists
        THEN IF "backup" \in faults
             THEN [files |-> files, ok |-> FALSE, failed |-> {"backup"}]
             ELSE LET saved == Move(files, final_path, backup_path)
                      installed == Move(saved, temp_path, final_path)
                  IN  IF "install" \in faults
                      THEN [files |-> saved, ok |-> FALSE, failed |-> {"install"}]
                      ELSE IF "remove" \in faults
                      THEN [files |-> installed, ok |-> FALSE, failed |-> {"remove"}]
                      ELSE [files |-> Remove(installed, backup_path), ok |-> TRUE,
                            failed |-> {}]
        ELSE IF "install" \in faults
             THEN [files |-> files, ok |-> FALSE, failed |-> {"install"}]
             ELSE [files |-> Move(files, temp_path, final_path), ok |-> TRUE,
                   failed |-> {}]

\* variant: no backup is taken; the old destination is removed before the
\* new file is renamed into place
AtomicMoveFile_NoBackup(files, temp_path, final_path, faults) ==
    IF files[final_path].exists
    THEN IF "backup" \in faults
         THEN [files |-> files, ok |-> FALSE, failed |-> {"backup"}]
         ELSE LET removed == Remove(files, final_path)
              IN  IF "install" \in faults
                  THEN [files |-> removed, ok |-> FALSE, failed |-> {"install"}]
                  ELSE [files |-> Move(removed, temp_path, final_path), ok |-> TRUE,
                        failed |-> {}]
    ELSE IF "install" \in faults
         THEN [files |-> files, ok |-> FALSE, failed |-> {"install"}]
         ELSE [files |-> Move(files, temp_path, final_path), ok |-> TRUE,
               failed |-> {}]

\* variant: when deleting the backup fails, the handler removes the new file
\* and leaves the backup where it is
AtomicMoveFile_DropOnRemoveFailure(files, temp_path, final_path, faults) ==
    LET backup_path == BackupPath(final_path)
    IN  IF files[final_path].exists
        THEN IF "backup" \in faults
             THEN [files |-> files, ok |-> FALSE, failed |-> {"backup"}]
             ELSE LET saved == Move(files, final_path, backup_path)
                      installed == Move(saved, temp_path, final_path)
                  IN  IF "install" \in faults
                      THEN IF "restore" \in faults
                           THEN [files |-> saved, ok |-> FALSE,
                                 failed |-> {"install", "restore"}]
                           ELSE [files |-> Move(saved, backup_path, final_path),
                                 ok |-> FALSE, failed |-> {"install"}]
                      ELSE IF "remove" \in faults
                      THEN [files |-> Remove(installed, final_path), ok |-> FALSE,
                            failed |-> {"remove"}]
                      ELSE [files |-> Remove(installed, backup_path), ok |-> TRUE,
                            failed |-> {}]
        ELSE IF "install" \in faults
             THEN [files |-> files, ok |-> FALSE, failed |-> {"install"}]
             ELSE [files |-> Move(files, temp_path, final_path), ok |-> TRUE,
                   failed |-> {}]

AtomicMoveFile(files, temp_path, final_path, faults) ==
    LET backup_path == BackupPath(final_path)
    IN  IF files[final_path].exists
        THEN IF "backup" \in faults
             THEN [files |-> files, ok |-> FALSE, failed |-> {"backup"}]
             ELSE LET saved == Move(files, final_path, backup_path)
                      installed == Move(saved, temp_path, final_path)
                  IN  IF "install" \in faults
                      THEN \* the handler restores the backup and re-raises
                           IF "restore" \in faults
                           THEN [files |-> saved, ok |-> FALSE,
                                 failed |-> {"install", "restore"}]
                           ELSE [files |-> Move(saved, backup_path, final_path),
                                 ok |-> FALSE, failed |-> {"install"}]
                      ELSE IF "remove" \in faults
                      THEN \* same handler: the backup goes back over the new file
                           IF "restore" \in faults
                           THEN [files |-> installed, ok |-> FALSE,
                                 failed |-> {"remove", "restore"}]
                           ELSE [files |-> Move(installed, backup_path, final_path),
                                 ok |-> FALSE, failed |-> {"remove"}]
                      ELSE [files |-> Remove(installed, backup_path), ok |-> TRUE,
                            failed |-> {}]
        ELSE IF "install" \in faults
             THEN [files |-> files, ok |-> FALSE, failed |-> {"install"}]
             ELSE [files |-> Move(files, temp_path, final_path), ok |-> TRUE,
                   failed |-> {}]

----------------------------------------------------------------------------
(* ExcelService.read_file *)

\* the columns whose header is not None and not blank after stripping
ValidCols(ws) ==
    {c \in 1..MaxColumn(ws) :
        LET v == CellValue(ws, header_row, c) IN ~IsNa(v) /\ Strip(v.s) # ""}

\* variant: only the rows whose key is None are dropped
CleanKey_KeepBlank(row) == ~IsNa(row[ORIGINAL_NAME])

\* rows whose key is None, or blank after str(key).strip(), are dropped
CleanKey(row) ==
    \/ row[ORIGINAL_NAME].t = "num"
    \/ row[ORIGINAL_NAME].t = "str" /\ Strip(row[ORIGINAL_NAME].s) # ""

\* ok with the cleaned frame, or a failure with its error class.
\* The header names of a workbook are taken to be distinct.
ReadFile(files, file_path) ==
    IF ~files[file_path].exists
    THEN [ok |-> FALSE, error |-> "FileOperationError", df |-> EmptyFrame]
    ELSE LET ws == files[file_path].ws
             valid_cols == ValidCols(ws)
             headers == {Strip(CellValue(ws, header_row, c).s) : c \in valid_cols}
             col_of == AsMap([h \in headers |->
                           CHOOSE c \in valid_cols :
                               Strip(CellValue(ws, header_row, c).s) = h])
             data_rows == AsSeq([i \in 1..(MaxRow(ws) - header_row) |->
                              AsMap([h \in headers |->
                                        CellValue(ws, header_row + i, col_of[h])])])
         IN  IF MaxRow(ws) < 3
             THEN [ok |-> FALSE, error |-> "DataFormatError", df |-> EmptyFrame]
             ELSE IF headers = {}
             THEN [ok |-> FALSE, error |-> "DataFormatError", df |-> EmptyFrame]
             ELSE IF ORIGINAL_NAME \notin headers
             THEN [ok |-> FALSE, error |-> "DataFormatError", df |-> EmptyFrame]
             ELSE LET cleaned == SelectRows(data_rows,
                                     [i \in 1..Len(data_rows) |-> CleanKey(data_rows[i])])
                  IN  IF Len(cleaned) = 0
                      THEN [ok |-> FALSE, error |-> "DataFormatError", df |-> EmptyFrame]
                      ELSE [ok |-> TRUE, error |-> "",
                            df |-> [columns |-> headers, rows |-> cleaned]]

----------------------------------------------------------------------------
(* ExcelService._write_ranking_result (write_file for a RankingResult).     *)
(* faults: the operations that fail when attempted: "copy", "save", the    *)
(* four of _atomic_move_file and the "unlink" of the finally block.         *)
(* The result reports the files afterwards, ok                              *)
(* (TRUE: returned True; FALSE: raised ExcelProcessingError), the failed    *)
(* operations and the writer's warnings.                                    *)

\* variant: the finally block leaves the temporary file
Cleanup_KeepTemp(files, faults) == files

\* the finally block: the temporary file is unlinked unless it was committed;
\* an unlink that fails ("unlink" in faults) is ignored
Cleanup(files, faults) ==
    IF files[TempPath].exists /\ "unlink" \notin faults
    THEN Remove(files, TempPath) ELSE files

\* the unlink of the finally block, when it was attempted and failed
CleanupFailed(files, faults) ==
    IF files[TempPath].exists /\ "unlink" \in faults THEN {"unlink"} ELSE {}

\* the worksheet work between loading the copy and saving it
RewriteWorksheet(ws, ranking_result, files) ==
    LET original_hyperlinks == CollectHyperlinks(ws)
        inserted == InsertRankingColumns(ws)
        relinked == ReapplyHyperlinks(inserted.ws, original_hyperlinks, files)
        final_col_map == FinalColMap(relinked)
        wrote == WriteDataToWorksheet(relinked, ranking_result.valid_data,
                                      ranking_result.excluded_data, final_col_map)
    IN  [ok |-> wrote.ok, ws |-> wrote.ws, warnings |-> inserted.warnings]

WriteRankingResult(files, file_path, ranking_result, input_file, faults) ==
    LET created == [files EXCEPT ![TempPath] = File(EmptySheet)]
    IN  IF ~files[input_file].exists \/ "copy" \in faults
        THEN [files |-> Cleanup(created, faults), ok |-> FALSE,
              failed |-> (IF files[input_file].exists THEN {"copy"} ELSE {})
                             \cup CleanupFailed(created, faults),
              warnings |-> <<>>]
        ELSE LET copied == [created EXCEPT ![TempPath] = files[input_file]]
                 rewritten == RewriteWorksheet(copied[TempPath].ws, ranking_result, copied)
             IN  IF ~rewritten.ok
                 THEN [files |-> Cleanup(copied, faults), ok |-> FALSE,
                       failed |-> CleanupFailed(copied, faults),
                       warnings |-> rewritten.warnings]
                 ELSE IF "save" \in faults
                 THEN [files |-> Cleanup(copied, faults), ok |-> FALSE,
                       failed |-> {"save"} \cup CleanupFailed(copied, faults),
                       warnings |-> rewritten.warnings]
                 ELSE LET saved == [copied EXCEPT ![TempPath] = File(rewritten.ws)]
                          moved == AtomicMoveFile(saved, TempPath, file_path, faults)
                      IN  [files |-> IF moved.ok THEN moved.files
                                     ELSE Cleanup(moved.files, faults),
                           ok |-> moved.ok,
                           failed |-> IF moved.ok THEN moved.failed
                                      ELSE moved.failed \cup CleanupFailed(moved.files, faults),
                           warnings |-> rewritten.warnings]

----------------------------------------------------------------------------
(* Application.process_anime_scores: read_file, process_rankings, then      *)
(* write_file with the result's input_file set to the input path.           *)

\* the outcome once write_file has returned or raised
AfterWrite(read, ranked, wrote) ==
    [status |-> IF wrote.ok THEN "written" ELSE "write failed",
     files |-> wrote.files, df |-> read.df,
     result |-> ranked.result, excluded_entries |-> ranked.excluded_entries,
     failed |-> wrote.failed, warnings |-> wrote.warnings]

\* step 2 done: ranking_result.input_file = config.input_file, then write_file
AfterRank(files, read, ranked, input_file, output_file, faults) ==
    AfterWrite(read, ranked,
               WriteRankingResult(files, output_file, ranked.result, input_file, faults))

\* step 1 done: a read failure ends the call, else process_rankings
AfterRead(files, previous, read, input_file, output_file, faults) ==
    IF ~read.ok
    THEN [status |-> "read failed", files |-> files, df |-> read.df,
          result |-> NoResult, excluded_entries |-> previous,
          failed |-> {}, warnings |-> <<>>]
    ELSE AfterRank(files, read, ProcessRankings(read.df, previous),
                   input_file, output_file, faults)

ProcessAnimeScores(files, previous, input_file, output_file, faults) ==
    AfterRead(files, previous, ReadFile(files, input_file),
              input_file, output_file, faults)

----------------------------------------------------------------------------
(* Inputs *)

KeyNames == <<"A", "B", "C", "D", "E", "F">>

\* what a score cell of a workbook can hold: nothing, a text, a number
ScoreCells == {NA, Str("N/A")} \cup {Num(n) : n \in (0 - 1)..MaxScore}

ScoreColumns == {PLATFORM_COLUMNS[k].score : k \in 1..Len(PLATFORM_COLUMNS)}
RankColumns == {PLATFORM_COLUMNS[k].rank : k \in 1..Len(PLATFORM_COLUMNS)}

RankColumnOf(score_col) ==
    IF score_col = COMPREHENSIVE_SCORE THEN COMPREHENSIVE_RANKING_COLUMN
    ELSE PLATFORM_COLUMNS[CHOOSE k \in 1..Len(PLATFORM_COLUMNS) :
                              PLATFORM_COLUMNS[k].score = score_col].rank

\* a frame of n rows with distinct keys and one score column
ColumnFrames(score_col) ==
    UNION { { [columns |-> {ORIGINAL_NAME, score_col},
               rows |-> [i \in 1..n |->
                           [c \in {ORIGINAL_NAME, score_col} |->
                               IF c = ORIGINAL_NAME THEN Str(KeyNames[i]) ELSE cells[i]]]]
              : cells \in [1..n -> ScoreCells] }
            : n \in 1..MaxColumnRows }

\* the one-row frames with the platform score columns cols
ScoreFrames(cols) ==
    { [columns |-> {ORIGINAL_NAME} \cup cols,
       rows |-> << [c \in {ORIGINAL_NAME} \cup cols |->
                       IF c = ORIGINAL_NAME THEN Str(KeyNames[1]) ELSE cells[c]] >>]
      : cells \in [cols -> ScoreCells] }

\* rows of an engine input: keys may repeat, notes may exclude the row
EngineColumns == {ORIGINAL_NAME, NOTES} \cup ScoreColumns
EngineKeys == {Str("A"), Str("B")}
EngineNotes == {NA, Str("*insufficient-runtime")}
EngineScores ==
    [c \in ScoreColumns |->
        CASE c = BANGUMI_SCORE -> {NA, Num(1), Num(2)}
          [] c = ANILIST_SCORE -> {NA, Num(2)}
          [] c = MYANIMELIST_SCORE -> {NA}
          [] c = FILMARKS_SCORE -> {NA, Num(1)}]

EngineRows ==
    { [c \in EngineColumns |->
          CASE c = ORIGINAL_NAME -> key
            [] c = NOTES -> notes
            [] c = BANGUMI_SCORE -> bangumi
            [] c = ANILIST_SCORE -> anilist
            [] c = MYANIMELIST_SCORE -> myanimelist
            [] c = FILMARKS_SCORE -> filmarks] :
        key \in EngineKeys, notes \in EngineNotes,
        bangumi \in EngineScores[BANGUMI_SCORE],
        anilist \in EngineScores[ANILIST_SCORE],
        myanimelist \in EngineScores[MYANIMELIST_SCORE],
        filmarks \in EngineScores[FILMARKS_SCORE] }

\* the frames of n rows
EngineFrames(n) ==
    { [columns |-> EngineColumns, rows |-> rows] : rows \in [1..n -> EngineRows] }

NoFiles == <<>>

----------------------------------------------------------------------------
(* SpecRank: _calculate_ranking applied to one score column *)

InitRank ==
    /\ data \in UNION {ColumnFrames(c) : c \in ScoreColumns \cup {COMPREHENSIVE_SCORE}}
    /\ result = NoResult
    /\ excluded_entries = None
    /\ fs = NoFiles
    /\ ret = [op |-> "none"]

CallCalculateRanking ==
    /\ ret.op = "none"
    /\ \E c \in data.columns \ {ORIGINAL_NAME} :
           result' = CalculateRanking(data, c, RankColumnOf(c))
    /\ ret' = [op |-> "calculate_ranking"]
    /\ UNCHANGED <<data, excluded_entries, fs>>

NextRank == CallCalculateRanking

SpecRank == InitRank /\ [][NextRank]_vars

----------------------------------------------------------------------------
(* SpecScore: _calculate_comprehensive_score applied to one record *)

InitScore ==
    /\ \E cols \in SUBSET ScoreColumns : data \in ScoreFrames(cols)
    /\ result = NoResult
    /\ excluded_entries = None
    /\ fs = NoFiles
    /\ ret = [op |-> "none"]

CallCalculateComprehensiveScore ==
    /\ ret.op = "none"
    /\ result' = CalculateComprehensiveScore(data)
    /\ ret' = [op |-> "calculate_comprehensive_score"]
    /\ UNCHANGED <<data, excluded_entries, fs>>

NextScore == CallCalculateComprehensiveScore

SpecScore == InitScore /\ [][NextScore]_vars

----------------------------------------------------------------------------
(* SpecEngine: process_rankings on a fresh RankingService *)

InitEngine ==
    /\ \E n \in 1..MaxRows : data \in EngineFrames(n)
    /\ result = NoResult
    /\ excluded_entries = None
    /\ fs = NoFiles
    /\ ret = [op |-> "none"]

CallProcessRankings ==
    /\ ret.op = "none"
    /\ LET out == ProcessRankings(data, excluded_entries)
       IN  /\ result' = out.result
           /\ excluded_entries' = out.excluded_entries
    /\ ret' = [op |-> "process_rankings"]
    /\ UNCHANGED <<data, fs>>

NextEngine == CallProcessRankings

SpecEngine == InitEngine /\ [][NextEngine]_vars

----------------------------------------------------------------------------
(* SpecReuse: process_rankings called again and again on one                *)
(* RankingService, each time on other rows                                  *)

\* the frames of n rows: keys may repeat, notes may exclude the row
ReuseFrames(n) ==
    { [columns |-> {ORIGINAL_NAME, NOTES, BANGUMI_SCORE},
       rows |-> rows] :
        rows \in [1..n -> { [c \in {ORIGINAL_NAME, NOTES, BANGUMI_SCORE} |->
                                CASE c = ORIGINAL_NAME -> key
                                  [] c = NOTES -> notes
                                  [] c = BANGUMI_SCORE -> bangumi] :
                              key \in EngineKeys, notes \in EngineNotes,
                              bangumi \in {Num(2)} }] }

InitReuse ==
    /\ data = EmptyFrame
    /\ result = NoResult
    /\ excluded_entries = None
    /\ fs = NoFiles
    /\ ret = [op |-> "none", calls |-> 0]

CallProcessRankingsAgain ==
    /\ ret.calls < MaxCalls
    /\ \E n \in 1..MaxReuseRows : data' \in ReuseFrames(n)
    /\ LET out == ProcessRankings(data', excluded_entries)
       IN  /\ result' = out.result
           /\ excluded_entries' = out.excluded_entries
    /\ ret' = [op |-> "process_rankings", calls |-> ret.calls + 1]
    /\ UNCHANGED fs

SpecReuse == InitReuse /\ [][CallProcessRankingsAgain]_vars

----------------------------------------------------------------------------
(* SpecShape: process_rankings on a fresh RankingService, over inputs with  *)
(* and without the Notes column and the score columns, and notes texts with *)
(* surrounding blanks                                                       *)

ShapeColumnSets ==
    {{ORIGINAL_NAME} \cup optional :
        optional \in SUBSET {NOTES, BANGUMI_SCORE, ANILIST_SCORE}}

ShapeNotes ==
    {NA, Str("*insufficient-runtime"), Str(" *insufficient-runtime "), Str(" ")}

\* the rows over the columns cols
ShapeRows(cols) ==
    { [c \in cols |->
          CASE c = ORIGINAL_NAME -> key
            [] c = NOTES -> notes
            [] c = BANGUMI_SCORE -> bangumi
            [] c = ANILIST_SCORE -> anilist] :
        key \in EngineKeys,
        notes \in IF NOTES \in cols THEN ShapeNotes ELSE {NA},
        bangumi \in IF BANGUMI_SCORE \in cols THEN {NA, Num(2), Str("N/A")} ELSE {NA},
        anilist \in IF ANILIST_SCORE \in cols THEN {NA, Num(1)} ELSE {NA} }

\* the frames of n rows over the columns cols
ShapeFrames(cols, n) ==
    { [columns |-> cols, rows |-> rows] : rows \in [1..n -> ShapeRows(cols)] }

InitShape ==
    /\ \E cols \in ShapeColumnSets : \E n \in 1..MaxRows : data \in ShapeFrames(cols, n)
    /\ result = NoResult
    /\ excluded_entries = None
    /\ fs = NoFiles
    /\ ret = [op |-> "none"]

SpecShape == InitShape /\ [][NextEngine]_vars

----------------------------------------------------------------------------
(* Input workbooks *)

BANGUMI_URL == "Bangumi_url"

\* what one data row of an input sheet holds: its key cell, its notes cell
\* and its Bangumi and Filmarks scores
BlankRow == [key |-> NA, notes |-> NA, bangumi |-> NA, filmarks |-> NA]
SheetRowKinds ==
    {BlankRow} \cup
    {[key |-> k, notes |-> p[1], bangumi |-> p[2], filmarks |-> p[3]] :
        k \in {Str("A"), Str("B")},
        p \in {<<NA, Num(2), NA>>, <<NA, Num(1), Num(1)>>, <<NA, NA, NA>>,
                <<Str("*insufficient-runtime"), NA, NA>>,
                <<Str("*insufficient-runtime"), Num(2), NA>>}}

\* the cell of a data row under the header h
DataCell(kind, h) ==
    CASE h = ORIGINAL_NAME -> kind.key
      [] h = NOTES -> kind.notes
      [] h = BANGUMI_SCORE -> kind.bangumi
      [] h = FILMARKS_SCORE -> kind.filmarks
      [] h = ANILIST_SCORE -> IF IsNa(kind.key) THEN NA ELSE Num(1)
      [] h \in {BANGUMI_TOTAL, ANILIST_TOTAL, FILMARKS_TOTAL, MYANIMELIST_TOTAL} ->
             IF IsNa(kind.key) THEN NA ELSE Num(100)
      [] h = BANGUMI_URL -> IF IsNa(kind.key) THEN NA ELSE Str("bgm.tv")
      [] h = "" -> IF IsNa(kind.key) THEN NA ELSE Str("memo")
      [] OTHER -> NA

\* a worksheet with the header texts header ("" for an empty header cell),
\* the data rows kinds and a hyperlink on every non-empty data cell of the
\* columns link_columns
MakeSheet(header, kinds, link_columns) ==
    [rows |->
        AsSeq([r \in 1..(header_row + Len(kinds)) |->
            AsSeq([c \in 1..Len(header) |->
                IF r = 1 THEN (IF c = 1 THEN Str("title") ELSE NA)
                ELSE IF r = header_row
                     THEN (IF header[c] = "" THEN NA ELSE Str(header[c]))
                     ELSE DataCell(kinds[r - header_row], header[c])])]),
     links |->
        {[row |-> header_row + i, col |-> c, target |-> <<header[c], i>>] :
            i \in {i \in 1..Len(kinds) : ~IsNa(kinds[i].key)},
            c \in {c \in 1..Len(header) : header[c] \in link_columns}}]

\* the header row of the value-writing runs
PlainHeader ==
    <<ORIGINAL_NAME, BANGUMI_SCORE, BANGUMI_TOTAL, FILMARKS_SCORE, FILMARKS_TOTAL,
      COMPREHENSIVE_SCORE, RANKING, BANGUMI_URL, NOTES>>

\* the files a run can touch
InputPaths == {ORIGINAL_WORKBOOK, "other.xlsx"}
OutputPath == "out.xlsx"
Paths == InputPaths \cup {OutputPath, BackupPath(OutputPath), TempPath}

NoRun == [op |-> "none", status |-> "", input_file |-> "", output_file |-> "",
          before |-> NoFiles, failed |-> {}, warnings |-> <<>>, runs |-> 0]

\* process_anime_scores(config) as a step: the engine state, the files and
\* the record of the call
\* the state a call with the outcome out leaves
Returns(out, input_file, output_file) ==
    /\ fs' = out.files
    /\ data' = out.df
    /\ result' = out.result
    /\ excluded_entries' = out.excluded_entries
    /\ ret' = [op |-> "process_anime_scores", status |-> out.status,
               input_file |-> input_file, output_file |-> output_file,
               before |-> fs, failed |-> out.failed, warnings |-> out.warnings,
               runs |-> ret.runs + 1]

RunPipeline(input_file, output_file, faults) ==
    /\ ret.runs < MaxRuns
    /\ Returns(ProcessAnimeScores(fs, excluded_entries, input_file, output_file, faults),
               input_file, output_file)

----------------------------------------------------------------------------
(* SpecWrite: one run of the pipeline from mzzb.xlsx to out.xlsx, over the  *)
(* data rows of the input sheet                                             *)

\* the input sheets of n data rows
WriteSheets(n) ==
    { MakeSheet(PlainHeader, kinds, {BANGUMI_URL}) : kinds \in [1..n -> SheetRowKinds] }

InitWrite ==
    /\ \E n \in 1..MaxSheetRows : \E ws \in WriteSheets(n) :
           fs = [p \in Paths |-> IF p = ORIGINAL_WORKBOOK THEN File(ws) ELSE NoFile]
    /\ data = EmptyFrame
    /\ result = NoResult
    /\ excluded_entries = None
    /\ ret = NoRun

WriteOnce ==
    /\ ret.runs = 0
    /\ RunPipeline(ORIGINAL_WORKBOOK, OutputPath, {})

NextWrite == WriteOnce

SpecWrite == InitWrite /\ [][NextWrite]_vars

----------------------------------------------------------------------------
(* SpecColumns: runs of the pipeline over header layouts, hyperlinked       *)
(* columns and input paths; after a run that wrote out.xlsx the pipeline    *)
(* may run again on out.xlsx itself                                         *)

\* header rows: all totals present; a rank column already there; no total
\* column; the linked column left of the insertion; an empty header cell and
\* a padded header text; four total columns and no Notes column; the
\* composite score and composite rank columns
HeaderLayouts ==
    { <<ORIGINAL_NAME, BANGUMI_SCORE, BANGUMI_TOTAL, FILMARKS_SCORE, FILMARKS_TOTAL,
        BANGUMI_URL, NOTES>>,
      <<ORIGINAL_NAME, BANGUMI_SCORE, BANGUMI_TOTAL, BANGUMI_RANK, BANGUMI_URL, NOTES>>,
      <<ORIGINAL_NAME, BANGUMI_SCORE, BANGUMI_URL, NOTES>>,
      <<BANGUMI_URL, ORIGINAL_NAME, BANGUMI_SCORE, BANGUMI_TOTAL, NOTES>>,
      <<ORIGINAL_NAME, "", BANGUMI_SCORE, " Bangumi_total", BANGUMI_URL, NOTES>>,
      <<ORIGINAL_NAME, BANGUMI_TOTAL, ANILIST_TOTAL, MYANIMELIST_TOTAL, FILMARKS_TOTAL,
        BANGUMI_URL>>,
      <<ORIGINAL_NAME, BANGUMI_SCORE, BANGUMI_TOTAL, COMPREHENSIVE_SCORE,
        COMPREHENSIVE_RANKING_COLUMN, NOTES>> }

LinkColumnSets == {{BANGUMI_URL}, {ORIGINAL_NAME, BANGUMI_URL}, {BANGUMI_SCORE}}

ColumnRowKinds ==
    { [key |-> Str("A"), notes |-> NA, bangumi |-> Num(2), filmarks |-> NA],
      [key |-> Str("B"), notes |-> Str("*insufficient-runtime"),
       bangumi |-> NA, filmarks |-> NA] }

\* the input sheets of n data rows
ColumnSheets(n) ==
    { MakeSheet(header, kinds, links) :
        header \in HeaderLayouts, links \in LinkColumnSets,
        kinds \in [1..n -> ColumnRowKinds] }

\* what mzzb.xlsx holds when the input workbook is another file
OtherOriginals ==
    {NoFile,
     File(MakeSheet(<<BANGUMI_URL, ORIGINAL_NAME, BANGUMI_SCORE, BANGUMI_TOTAL, NOTES>>,
                    <<[key |-> Str("A"), notes |-> NA, bangumi |-> Num(2),
                       filmarks |-> NA]>>, {}))}

InitColumns ==
    /\ \E n \in 1..MaxLinkRows : \E ws \in ColumnSheets(n) :
          \/ fs = [p \in Paths |-> IF p = ORIGINAL_WORKBOOK THEN File(ws) ELSE NoFile]
          \/ \E original \in OtherOriginals :
                fs = [p \in Paths |-> IF p = "other.xlsx" THEN File(ws)
                                      ELSE IF p = ORIGINAL_WORKBOOK THEN original
                                      ELSE NoFile]
    /\ data = EmptyFrame
    /\ result = NoResult
    /\ excluded_entries = None
    /\ ret = NoRun

FirstRun ==
    /\ ret.runs = 0
    /\ \E input_file \in InputPaths :
          /\ fs[input_file].exists
          /\ RunPipeline(input_file, OutputPath, {})

RunOnOwnOutput ==
    /\ ret.runs >= 1
    /\ ret.status = "written"
    /\ RunPipeline(OutputPath, OutputPath, {})

NextColumns == FirstRun \/ RunOnOwnOutput

SpecColumns == InitColumns /\ [][NextColumns]_vars

----------------------------------------------------------------------------
(* SpecCommit: one run of the pipeline to out.xlsx, which exists or not,    *)
(* with any set of filesystem operations failing                            *)

FaultPoints == {"copy", "save", "backup", "install", "remove", "restore", "unlink"}

CommitRowKinds ==
    { [key |-> Str("A"), notes |-> NA, bangumi |-> Num(2), filmarks |-> NA],
      [key |-> Str("B"), notes |-> Str("*insufficient-runtime"),
       bangumi |-> NA, filmarks |-> NA] }

\* the input sheets of n data rows
CommitSheets(n) ==
    { MakeSheet(PlainHeader, kinds, {BANGUMI_URL}) : kinds \in [1..n -> CommitRowKinds] }

\* an earlier workbook at the destination, or at its .backup sibling
OldSheet(mark) ==
    MakeSheet(<<ORIGINAL_NAME, NOTES>>,
              <<[key |-> Str(mark), notes |-> NA, bangumi |-> NA, filmarks |-> NA]>>, {})

InitCommit ==
    /\ \E n \in 1..MaxCommitRows : \E ws \in CommitSheets(n) :
       \E destination \in {NoFile, File(OldSheet("old"))} :
       \E backup \in {NoFile, File(OldSheet("stale"))} :
          fs = [p \in Paths |-> IF p = ORIGINAL_WORKBOOK THEN File(ws)
                                ELSE IF p = OutputPath THEN destination
                                ELSE IF p = BackupPath(OutputPath) THEN backup
                                ELSE NoFile]
    /\ data = EmptyFrame
    /\ result = NoResult
    /\ excluded_entries = None
    /\ ret = NoRun

CommitOnce ==
    /\ ret.runs = 0
    /\ \E faults \in SUBSET FaultPoints :
          RunPipeline(ORIGINAL_WORKBOOK, OutputPath, faults)

NextCommit == CommitOnce

SpecCommit == InitCommit /\ [][NextCommit]_vars

----------------------------------------------------------------------------
(* SpecRead: read_file on a workbook, over short sheets, header rows        *)
(* without names or without the key name, and empty or blank keys           *)

ReadHeaders ==
    { <<ORIGINAL_NAME, BANGUMI_SCORE>>,
      <<"", BANGUMI_SCORE, ORIGINAL_NAME>>,
      <<NOTES, BANGUMI_SCORE>>,
      <<"", " ">> }

ReadRowKinds ==
    { [key |-> k, notes |-> NA, bangumi |-> b, filmarks |-> NA] :
        k \in {NA, Str(" "), Str("A"), Str("B"), Num(1)}, b \in {NA, Num(2)} }

\* the sheets with the title row only, and with a header row and n data rows
ReadSheets(n) ==
    { MakeSheet(header, kinds, {}) : header \in ReadHeaders, kinds \in [1..n -> ReadRowKinds] }
        \cup {[rows |-> <<<<Str("title")>>>>, links |-> {}]}

InitRead ==
    /\ \E n \in 0..MaxReadRows : \E ws \in ReadSheets(n) :
           fs = [p \in Paths |-> IF p = ORIGINAL_WORKBOOK THEN File(ws) ELSE NoFile]
    /\ data = EmptyFrame
    /\ result = NoResult
    /\ excluded_entries = None
    /\ ret = [op |-> "none", ok |-> FALSE, error |-> ""]

CallReadFile ==
    /\ ret.op = "none"
    /\ LET read == ReadFile(fs, ORIGINAL_WORKBOOK)
       IN  /\ data' = read.df
           /\ ret' = [op |-> "read_file", ok |-> read.ok, error |-> read.error]
    /\ UNCHANGED <<result, excluded_entries, fs>>

NextRead == CallReadFile

SpecRead == InitRead /\ [][NextRead]_vars

----------------------------------------------------------------------------
(* SpecInsert: _insert_ranking_columns on a sheet whose header row holds    *)
(* total columns in any order and rank columns already there, in any place  *)

\* the total and rank headers of the four platforms
InsertHeaderNames ==
    {PLATFORM_COLUMNS[k].total : k \in 1..Len(PLATFORM_COLUMNS)}
        \cup {PLATFORM_COLUMNS[k].rank : k \in 1..Len(PLATFORM_COLUMNS)}

\* the sequences of at most n of these headers, none twice
RECURSIVE Arrangements(_)
Arrangements(n) ==
    IF n = 0 THEN {<<>>}
    ELSE LET shorter == Arrangements(n - 1)
         IN  shorter \cup UNION {{Append(a, h) : h \in InsertHeaderNames \ Range(a)} :
                                    a \in shorter}

\* the sheets with one data row under such a header row
InsertSheets(n) ==
    { MakeSheet(<<ORIGINAL_NAME>> \o a \o <<NOTES>>,
                <<[key |-> Str("A"), notes |-> NA, bangumi |-> NA, filmarks |-> NA]>>,
                {ORIGINAL_NAME}) : a \in Arrangements(n) }

InitInsert ==
    /\ \E ws \in InsertSheets(MaxInsertHeaders) :
          fs = [p \in Paths |-> IF p = ORIGINAL_WORKBOOK THEN File(ws) ELSE NoFile]
    /\ data = EmptyFrame
    /\ result = NoResult
    /\ excluded_entries = None
    /\ ret = [op |-> "none", current_columns |-> EmptyMap, warnings |-> <<>>]

\* the call leaves the sheet of the temporary copy, the map of the loop and
\* the warnings logged
CallInsertRankingColumns ==
    /\ ret.op = "none"
    /\ LET out == InsertRankingColumns(fs[ORIGINAL_WORKBOOK].ws)
       IN  /\ fs' = [fs EXCEPT ![TempPath] = File(out.ws)]
           /\ ret' = [op |-> "insert_ranking_columns",
                      current_columns |-> out.current_columns,
                      warnings |-> out.warnings]
    /\ UNCHANGED <<data, result, excluded_entries>>

SpecInsert == InitInsert /\ [][CallInsertRankingColumns]_vars

----------------------------------------------------------------------------
(* Claims about the ranking engine *)

\* a field of a row, absent columns reading as empty
Field(row, c) == IF c \in DOMAIN row THEN row[c] ELSE NA

\* the columns the engine computes
ComputedColumns == RankColumns \cup {COMPREHENSIVE_SCORE, COMPREHENSIVE_RANKING_COLUMN}

\* rows cut down to the columns cols
Project(rows, cols) == [i \in 1..Len(rows) |-> [c \in cols |-> Field(rows[i], c)]]

\* C1: in a ranked column every record with a numeric score gets
\* rank = 1 + the number of records with a strictly greater numeric score
\* (so equal scores share a rank, and [9, 9, 8] gives [1, 1, 3]).
C1_CompetitionRanking ==
    ret.op = "calculate_ranking" =>
        \A c \in data.columns \ {ORIGINAL_NAME} :
            \A i \in 1..Len(data.rows) :
                data.rows[i][c].t = "num" =>
                    result.rows[i][RankColumnOf(c)] =
                        Num(1 + Cardinality({j \in 1..Len(data.rows) :
                                                /\ data.rows[j][c].t = "num"
                                                /\ data.rows[j][c].v > data.rows[i][c].v}))

\* C1 witness: two equal best scores and a lower one are ranked 1, 1, 3
C1_Witness ==
    /\ ret.op = "calculate_ranking"
    /\ Len(data.rows) = 3
    /\ BANGUMI_SCORE \in data.columns
    /\ data.rows[1][BANGUMI_SCORE] = Num(2)
    /\ data.rows[2][BANGUMI_SCORE] = Num(2)
    /\ data.rows[3][BANGUMI_SCORE] = Num(1)
    /\ result.rows[1][BANGUMI_RANK] = Num(1)
    /\ result.rows[2][BANGUMI_RANK] = Num(1)
    /\ result.rows[3][BANGUMI_RANK] = Num(3)

\* a present platform score: a non-negative number in the record's cell
PresentScore(row, c) == c \in DOMAIN row /\ row[c].t = "num" /\ row[c].v >= 0

\* score * weight (weight in tenths) of a platform if present, else 0
Term(row, c, weight) == IF PresentScore(row, c) THEN row[c].v * weight ELSE 0
Share(row, c, weight) == IF PresentScore(row, c) THEN weight ELSE 0

\* C2: with at least one present platform score, the composite score is
\* sum(score * weight) / sum(weight) over exactly the present platforms, with
\* weights Bangumi 0.5, Anilist 0.2, MyAnimelist 0.1, Filmarks 0.2.
C2_CompositeRenormalized ==
    ret.op = "calculate_comprehensive_score" =>
        \A i \in 1..Len(data.rows) :
            LET row == data.rows[i]
                numerator == Term(row, BANGUMI_SCORE, 5) + Term(row, ANILIST_SCORE, 2)
                             + Term(row, MYANIMELIST_SCORE, 1) + Term(row, FILMARKS_SCORE, 2)
                denominator == Share(row, BANGUMI_SCORE, 5) + Share(row, ANILIST_SCORE, 2)
                               + Share(row, MYANIMELIST_SCORE, 1)
                               + Share(row, FILMARKS_SCORE, 2)
            IN  denominator > 0 =>
                    /\ result.rows[i][COMPREHENSIVE_SCORE].t = "num"
                    /\ result.rows[i][COMPREHENSIVE_SCORE].v * denominator
                           = numerator * Scale

\* C2 witness: only Bangumi (2) and Anilist (1) present: (2*0.5 + 1*0.2) / 0.7
C2_Witness ==
    /\ ret.op = "calculate_comprehensive_score"
    /\ data.columns = {ORIGINAL_NAME} \cup ScoreColumns
    /\ data.rows[1][BANGUMI_SCORE] = Num(2)
    /\ data.rows[1][ANILIST_SCORE] = Num(1)
    /\ data.rows[1][MYANIMELIST_SCORE] = NA
    /\ data.rows[1][FILMARKS_SCORE] = NA
    /\ result.rows[1][COMPREHENSIVE_SCORE] = Num((12 * Scale) \div 7)

\* the rows of a frame whose notes are / are not in the exclusion set
NoteExcluded(row) == IsExcludedNote(Field(row, NOTES))
ExcludedMask(rows) == [i \in 1..Len(rows) |-> NoteExcluded(rows[i])]
KeptMask(rows) == [i \in 1..Len(rows) |-> ~NoteExcluded(rows[i])]

\* C3: a record whose notes are in the exclusion set has no composite score
\* and no rank in the result, and the composite scores and ranks of the other
\* records are those the engine gives on the input without the excluded
\* records.
C3_ExclusionIndependence ==
    ret.op = "process_rankings" =>
        LET reduced == [columns |-> data.columns,
                        rows |-> SelectRows(data.rows, KeptMask(data.rows))]
            reference == ProcessRankings(reduced, None).result
            returned == result.valid_data.rows \o result.excluded_data.rows
        IN  /\ \A i \in 1..Len(returned) :
                   NoteExcluded(returned[i]) =>
                       \A c \in ComputedColumns : IsNa(Field(returned[i], c))
            /\ Project(SelectRows(returned, KeptMask(returned)), ComputedColumns)
                   = Project(reference.valid_data.rows, ComputedColumns)

\* C10: total_processed = total_valid + total_excluded, and valid and
\* excluded partition the input rows: some split of the input rows gives
\* valid (in order) and excluded (in order), no row lost or duplicated.
C10_RowsPartitioned ==
    ret.op = "process_rankings" =>
        /\ result.total_processed = result.total_valid + result.total_excluded
        /\ result.total_valid = Len(result.valid_data.rows)
        /\ result.total_excluded = Len(result.excluded_data.rows)
        /\ result.total_processed = Len(data.rows)
        /\ \E in_valid \in [1..Len(data.rows) -> BOOLEAN] :
               /\ Project(result.valid_data.rows, data.columns)
                      = SelectRows(data.rows, in_valid)
               /\ Project(result.excluded_data.rows, data.columns)
                      = SelectRows(data.rows, [i \in 1..Len(data.rows) |-> ~in_valid[i]])

\* C10 witness: one row ends in valid and one in excluded
C10_Witness ==
    /\ ret.op = "process_rankings"
    /\ result.total_valid = 1
    /\ result.total_excluded = 1
    /\ result.total_processed = 2

----------------------------------------------------------------------------
(* Claims about the written workbook *)

\* the run just made wrote its workbook
Written == ret.op = "process_anime_scores" /\ ret.status = "written"

\* the workbook the run read and the one it left at the output path
InputSheet == ret.before[ret.input_file].ws
OutputSheet == fs[ret.output_file].ws

\* the column of the output sheet under the header name n (0: none)
OutputColumn(n) ==
    LET cols == HeaderMap(OutputSheet) IN IF n \in DOMAIN cols THEN cols[n] ELSE 0

\* the output rows that belong to a valid record
ValidRecordRows ==
    {r \in (header_row + 1)..MaxRow(OutputSheet) :
        /\ Truthy(CellValue(OutputSheet, r, OutputColumn(ORIGINAL_NAME)))
        /\ HasKey(result.valid_data.rows,
                  CellValue(OutputSheet, r, OutputColumn(ORIGINAL_NAME)))}

\* C4: in the written workbook, a valid record's row with a composite score
\* and no score for a platform holds the text "NaN" in that platform's rank
\* cell.
C4_NaNSentinel ==
    Written =>
        \A r \in ValidRecordRows : \A k \in 1..Len(PLATFORM_COLUMNS) :
            LET p == PLATFORM_COLUMNS[k]
            IN  ( /\ OutputColumn(p.rank) > 0
                  /\ OutputColumn(p.score) > 0
                  /\ OutputColumn(COMPREHENSIVE_SCORE) > 0
                  /\ CellValue(OutputSheet, r, OutputColumn(COMPREHENSIVE_SCORE)).t = "num"
                  /\ IsNa(CellValue(OutputSheet, r, OutputColumn(p.score))) )
                => CellValue(OutputSheet, r, OutputColumn(p.rank)) = Str("NaN")

\* the worksheet as the writer holds it before it writes the data
Relinked ==
    ReapplyHyperlinks(InsertRankingColumns(InputSheet).ws,
                      CollectHyperlinks(InputSheet), ret.before)

\* the rows written in place for valid records
WrittenRows == MatchedRows(Relinked, result.valid_data, FinalColMap(Relinked))

\* C9: the excluded records are appended in order from the row that leaves
\* exactly two blank rows below the last row written for a valid record, and
\* no appended row receives a rank or a composite value.
C9_ExcludedTwoRowsBelow ==
    (Written /\ WrittenRows # {} /\ ~IsEmpty(result.excluded_data)) =>
        LET final_col_map == FinalColMap(Relinked)
            start_row == SetMax(WrittenRows) + 3
            in_place == WriteValidRows(Relinked, result.valid_data, final_col_map)
            expected == WriteExcludedRows(in_place, result.excluded_data,
                                          final_col_map, start_row)
        IN  /\ OutputSheet.rows = expected.rows
            /\ \A r \in start_row..(start_row + Len(result.excluded_data.rows) - 1) :
                   \A n \in ComputedColumns :
                       OutputColumn(n) > 0 => IsNa(CellValue(OutputSheet, r, OutputColumn(n)))

\* the header names of a sheet by column, and how often a name occurs
Occurrences(ws, n) == Cardinality({c \in DOMAIN ColumnNames(ws) : ColumnNames(ws)[c] = n})

\* C5: every hyperlink on a cell (row r, header h) of the input workbook is
\* on the cell (row r, header h) of the output, and on no output cell under
\* another header, whatever the input path and the columns inserted.
C5_HyperlinksFollowHeaders ==
    Written =>
        LET input_names == ColumnNames(InputSheet)
            output_names == ColumnNames(OutputSheet)
        IN  \A l \in InputSheet.links :
                l.col \in DOMAIN input_names =>
                    /\ \E m \in OutputSheet.links :
                           /\ m.row = l.row
                           /\ m.target = l.target
                           /\ m.col \in DOMAIN output_names
                           /\ output_names[m.col] = input_names[l.col]
                    /\ \A m \in OutputSheet.links :
                           m.target = l.target =>
                               /\ m.col \in DOMAIN output_names
                               /\ output_names[m.col] = input_names[l.col]

\* C6: a rank header already in the header row gets no further column, and a
\* run on the writer's own output leaves the column count unchanged and each
\* rank header that has its total column exactly once.
C6_InsertionIdempotent ==
    Written =>
        /\ \A k \in 1..Len(PLATFORM_COLUMNS) :
               Occurrences(InputSheet, PLATFORM_COLUMNS[k].rank) >= 1 =>
                   Occurrences(OutputSheet, PLATFORM_COLUMNS[k].rank)
                       = Occurrences(InputSheet, PLATFORM_COLUMNS[k].rank)
        /\ ret.runs >= 2 =>
               /\ MaxColumn(OutputSheet) = MaxColumn(InputSheet)
               /\ OutputSheet.rows[header_row] = InputSheet.rows[header_row]
               /\ \A k \in 1..Len(PLATFORM_COLUMNS) :
                      Occurrences(OutputSheet, PLATFORM_COLUMNS[k].total) >= 1 =>
                          Occurrences(OutputSheet, PLATFORM_COLUMNS[k].rank) = 1

\* C6 witness: the second run, on the output of a run that inserted
\* Bangumi_Rank and Filmarks_Rank, leaves both there once
C6_Witness ==
    /\ Written
    /\ ret.runs = 2
    /\ ret.input_file = OutputPath
    /\ Occurrences(OutputSheet, BANGUMI_RANK) = 1
    /\ Occurrences(OutputSheet, FILMARKS_RANK) = 1
    /\ Occurrences(ret.before[OutputPath].ws, BANGUMI_RANK) = 1
    /\ MaxColumn(OutputSheet) = 9

\* a header cell of the output that holds a rank header the input has not
InsertedRankHeader(c) ==
    /\ c.t = "str"
    /\ c.s \in RankColumns
    /\ c.s \notin Range(ColumnNames(InputSheet))

KeptHeader(c) == ~InsertedRankHeader(c)

\* C19: the output header row is the input header row with at most four rank
\* headers inserted: without them it is the input header row, in order; and
\* no column is inserted for the composite rank.
C19_HeaderRowKeepsOrder ==
    Written =>
        /\ SelectSeq(OutputSheet.rows[header_row], KeptHeader) = InputSheet.rows[header_row]
        /\ MaxColumn(OutputSheet) - MaxColumn(InputSheet) \in 0..4
        /\ Occurrences(OutputSheet, COMPREHENSIVE_RANKING_COLUMN)
               = Occurrences(InputSheet, COMPREHENSIVE_RANKING_COLUMN)

\* C19 witness: Bangumi_Rank went in after Bangumi_total, the composite rank
\* header stayed the one of the input
C19_Witness ==
    /\ Written
    /\ InputSheet.rows[header_row]
           = <<Str(ORIGINAL_NAME), Str(BANGUMI_SCORE), Str(BANGUMI_TOTAL),
               Str(COMPREHENSIVE_SCORE), Str(COMPREHENSIVE_RANKING_COLUMN), Str(NOTES)>>
    /\ OutputSheet.rows[header_row]
           = <<Str(ORIGINAL_NAME), Str(BANGUMI_SCORE), Str(BANGUMI_TOTAL), Str(BANGUMI_RANK),
               Str(COMPREHENSIVE_SCORE), Str(COMPREHENSIVE_RANKING_COLUMN), Str(NOTES)>>

\* the run ended in the writer's error; the files it found and left
WriteFailed == ret.op = "process_anime_scores" /\ ret.status = "write failed"
DestinationBefore == ret.before[ret.output_file]
DestinationAfter == fs[ret.output_file]
BackupAfter == fs[BackupPath(ret.output_file)]

WriteCalled == ret.op = "process_anime_scores" /\ ret.status # "read failed"

\* _reapply_hyperlinks could not load the workbook it takes the original
\* header names from
RelocationFailed == ~ret.before[ORIGINAL_WORKBOOK].exists

\* C15: when a step of the write sequence fails (here: an operation on the
\* files, or the loading of the original headers for the hyperlink
\* relocation), write_file reports an error and the destination is as before.
C15_FailedStepReportsError ==
    (WriteCalled /\ (ret.failed # {} \/ RelocationFailed)) =>
        /\ ret.status = "write failed"
        /\ DestinationAfter = DestinationBefore

----------------------------------------------------------------------------
(* Claims about degraded inputs of the ranking engine *)

\* the rows process_rankings ranks: the rows the filter keeps
KeptFrame == [columns |-> data.columns, rows |-> SelectRows(data.rows, KeptMask(data.rows))]

KeysUnique(rows) ==
    \A i, j \in 1..Len(rows) :
        /\ ~IsNa(Field(rows[i], ORIGINAL_NAME))
        /\ i # j => Field(rows[i], ORIGINAL_NAME) # Field(rows[j], ORIGINAL_NAME)

\* C17: without a Notes column process_rankings skips the filter: every row
\* is in valid, excluded is empty, a warning is recorded, and the composite
\* scores and ranks are computed on all rows.
C17_NoNotesColumnSkipsFilter ==
    (/\ ret.op = "process_rankings"
     /\ NOTES \notin data.columns
     /\ KeysUnique(data.rows)) =>
        /\ Project(result.valid_data.rows, data.columns) = data.rows
        /\ result.total_excluded = 0
        /\ result.warnings # <<>>
        /\ Project(result.valid_data.rows, {COMPREHENSIVE_SCORE})
               = Project(CalculateComprehensiveScore(data).rows, {COMPREHENSIVE_SCORE})
        /\ \A k \in 1..Len(PLATFORM_COLUMNS) :
               LET p == PLATFORM_COLUMNS[k]
               IN  p.score \in data.columns =>
                       Project(result.valid_data.rows, {p.rank})
                           = Project(CalculateRanking(data, p.score, p.rank).rows, {p.rank})

\* the notes of the row are one of the exclusion texts, character by character
ExactlyExcluded(row) == Field(row, NOTES) \in {Str(x) : x \in EXCLUDED_NOTES}

\* the notes of the row, trimmed, are one of the exclusion texts
TrimmedExcluded(row) ==
    Field(row, NOTES).t = "str" /\ Strip(Field(row, NOTES).s) \in EXCLUDED_NOTES

\* C18 (as amended): a row is in excluded if and only if its notes value is,
\* without any trimming, one of the two exclusion texts; rows with blank or
\* absent notes (and rows whose notes carry surrounding blanks) are valid.
C18_ExcludedIffExactMatch ==
    (ret.op = "process_rankings" /\ ValidateData(data)) =>
        /\ Project(result.excluded_data.rows, data.columns)
               = SelectRows(data.rows,
                            [i \in 1..Len(data.rows) |-> ExactlyExcluded(data.rows[i])])
        /\ Project(result.valid_data.rows, data.columns)
               = SelectRows(data.rows,
                            [i \in 1..Len(data.rows) |-> ~ExactlyExcluded(data.rows[i])])

\* C18 as stated: a row is in excluded if and only if its trimmed notes value
\* is one of the two exclusion texts; blank or absent notes are valid.
C18_ExcludedIffTrimmedMatch ==
    (ret.op = "process_rankings" /\ ValidateData(data)) =>
        /\ Project(result.excluded_data.rows, data.columns)
               = SelectRows(data.rows,
                            [i \in 1..Len(data.rows) |-> TrimmedExcluded(data.rows[i])])
        /\ Project(result.valid_data.rows, data.columns)
               = SelectRows(data.rows,
                            [i \in 1..Len(data.rows) |-> ~TrimmedExcluded(data.rows[i])])

\* C18 witness: the row with the exclusion text is in excluded, the row with
\* the same text between blanks is in valid
C18_Witness ==
    /\ ret.op = "process_rankings"
    /\ ValidateData(data)
    /\ Len(data.rows) = 2
    /\ data.rows[1][NOTES] = Str("*insufficient-runtime")
    /\ data.rows[2][NOTES] = Str(" *insufficient-runtime ")
    /\ result.total_excluded = 1
    /\ result.total_valid = 1
    /\ result.valid_data.rows[1][NOTES] = Str(" *insufficient-runtime ")

----------------------------------------------------------------------------
(* Claims about scores that are zero, negative, absent or not numbers *)

\* a cell with a zero or negative number
NonPositive(c) == c.t = "num" /\ c.v <= 0

\* the row with its zero and negative numbers made absent
WithoutNonPositive(row) ==
    [c \in DOMAIN row |-> IF NonPositive(row[c]) THEN NA ELSE row[c]]

\* C12: in the composite score a zero or negative platform score counts as
\* an absent one: the composite of a record is the composite of the same
\* record with those scores removed, hence absent when no score is > 0.
C12_NonPositiveAbsent ==
    ret.op = "calculate_comprehensive_score" =>
        \A i \in 1..Len(data.rows) :
            result.rows[i][COMPREHENSIVE_SCORE]
                = RowComprehensiveScore(WithoutNonPositive(data.rows[i]), data.columns)

\* the frame with the zero and negative numbers of column c made absent
ColumnWithoutNonPositive(df, c) ==
    [columns |-> df.columns,
     rows |-> [i \in 1..Len(df.rows) |->
                  [df.rows[i] EXCEPT ![c] = IF NonPositive(@) THEN NA ELSE @]]]

\* C13: in a platform's ranking a zero or negative score counts as an
\* absent one: the ranks are those of the same column with these scores
\* removed, so such a record gets no rank and moves no other record.
C13_NonPositiveUnranked ==
    ret.op = "calculate_ranking" =>
        \A c \in (data.columns \cap ScoreColumns) :
            Project(result.rows, {RankColumnOf(c)})
                = Project(CalculateRanking(ColumnWithoutNonPositive(data, c),
                                           c, RankColumnOf(c)).rows,
                          {RankColumnOf(c)})

\* the mask of the rows with a number in column c
NumericMask(rows, c) == [i \in 1..Len(rows) |-> rows[i][c].t = "num"]

\* the frame of the rows of data with a number in column c
NumericRowsOnly(c) ==
    [columns |-> data.columns, rows |-> SelectRows(data.rows, NumericMask(data.rows, c))]

\* C14: a record whose score is absent or not a number gets no rank and
\* takes no rank slot: the records with a number are ranked as in the column
\* without the other records, and without any number every rank is absent.
C14_AbsentTakesNoSlot ==
    ret.op = "calculate_ranking" =>
        \A c \in data.columns \ {ORIGINAL_NAME} :
            /\ \A i \in 1..Len(data.rows) :
                   data.rows[i][c].t # "num" => IsNa(result.rows[i][RankColumnOf(c)])
            /\ Project(SelectRows(result.rows, NumericMask(data.rows, c)), {RankColumnOf(c)})
                   = Project(CalculateRanking(NumericRowsOnly(c), c, RankColumnOf(c)).rows,
                             {RankColumnOf(c)})

\* C14 witness: a text and an empty cell between the scores 2 and 1, which
\* are ranked 1 and 2
C14_Witness ==
    /\ ret.op = "calculate_ranking"
    /\ BANGUMI_SCORE \in data.columns
    /\ Len(data.rows) = 3
    /\ data.rows[1][BANGUMI_SCORE] = Num(2)
    /\ data.rows[2][BANGUMI_SCORE].t # "num"
    /\ data.rows[3][BANGUMI_SCORE] = Num(1)
    /\ result.rows[1][BANGUMI_RANK] = Num(1)
    /\ IsNa(result.rows[2][BANGUMI_RANK])
    /\ result.rows[3][BANGUMI_RANK] = Num(2)

----------------------------------------------------------------------------
(* Claims about read_file *)

\* the sheet read_file was given
ReadSheet == fs[ORIGINAL_WORKBOOK].ws

\* the header cell of column c holds a name once trimmed
NamedColumn(c) ==
    LET v == CellValue(ReadSheet, header_row, c)
    IN  v.t = "num" \/ (v.t = "str" /\ Strip(v.s) # "")

\* the column under the key header (0: none)
KeyColumn ==
    LET cols == {c \in 1..MaxColumn(ReadSheet) :
                    /\ NamedColumn(c)
                    /\ Strip(CellValue(ReadSheet, header_row, c).s) = ORIGINAL_NAME}
    IN  IF cols = {} THEN 0 ELSE SetMin(cols)

\* the sheet row r has a key that is there and not blank
KeyedRow(r) ==
    LET v == CellValue(ReadSheet, r, KeyColumn)
    IN  v.t = "num" \/ (v.t = "str" /\ Strip(v.s) # "")

\* the data rows of the sheet with such a key, in sheet order
KeyedRows ==
    SelectSeq([i \in 1..(MaxRow(ReadSheet) - header_row) |-> header_row + i], KeyedRow)

\* C20: read_file fails with a format error when the sheet has fewer than 3
\* rows, no named header, no key header, or no data row with a key that is
\* there and not blank; otherwise it returns exactly the data rows with such
\* a key, in sheet order, each with the cells under the named headers.
C20_ReadFailsOrReturnsKeyedRows ==
    ret.op = "read_file" =>
        IF \/ MaxRow(ReadSheet) < 3
           \/ \A c \in 1..MaxColumn(ReadSheet) : ~NamedColumn(c)
           \/ KeyColumn = 0
           \/ KeyedRows = <<>>
        THEN ~ret.ok /\ ret.error = "DataFormatError"
        ELSE /\ ret.ok
             /\ Len(data.rows) = Len(KeyedRows)
             /\ data.rows # <<>>
             /\ \A i \in 1..Len(KeyedRows) :
                    \A c \in 1..MaxColumn(ReadSheet) :
                        NamedColumn(c) =>
                            data.rows[i][Strip(CellValue(ReadSheet, header_row, c).s)]
                                = CellValue(ReadSheet, KeyedRows[i], c)

\* C20 witness: of the keys " ", "B", "A" the rows of B and A are returned,
\* in this order
C20_Witness ==
    /\ ret.op = "read_file"
    /\ ret.ok
    /\ MaxRow(ReadSheet) = 5
    /\ KeyColumn = 3
    /\ CellValue(ReadSheet, 3, 3) = Str(" ")
    /\ Len(data.rows) = 2
    /\ data.rows[1][ORIGINAL_NAME] = Str("B")
    /\ data.rows[2][ORIGINAL_NAME] = Str("A")

----------------------------------------------------------------------------
(* Claims about the result of process_rankings on every path *)

\* C21: in every RankingResult of process_rankings, degraded paths included,
\* valid holds no record whose notes are in the exclusion set, and excluded
\* holds only such records, without rank and without composite value.
C21_ResultSequencesSeparated ==
    ret.op = "process_rankings" =>
        /\ \A i \in 1..Len(result.valid_data.rows) :
               ~NoteExcluded(result.valid_data.rows[i])
        /\ \A i \in 1..Len(result.excluded_data.rows) :
               /\ NoteExcluded(result.excluded_data.rows[i])
               /\ \A c \in ComputedColumns : IsNa(Field(result.excluded_data.rows[i], c))

\* the row with the texts of its score cells made absent
WithoutTextScores(row) ==
    [c \in DOMAIN row |-> IF c \in ScoreColumns /\ row[c].t = "str" THEN NA ELSE row[c]]

\* a score cell of the row holds a text
HasTextScore(row) == \E c \in DOMAIN row \cap ScoreColumns : row[c].t = "str"

\* C23 (as amended): a text in a platform's score cell counts as an absent
\* score of that platform: the record's composite score is computed from its
\* other scores, and every record's composite score is the one of its own row.
C23_TextScoreCountsAsAbsent ==
    (ret.op = "process_rankings" /\ ValidateData(data) /\ result.total_valid > 0) =>
        \A i \in 1..Len(KeptFrame.rows) :
            Field(result.valid_data.rows[i], COMPREHENSIVE_SCORE)
                = RowComprehensiveScore(WithoutTextScores(KeptFrame.rows[i]), data.columns)

\* C23 as stated: a record with a text in a platform's score cell has no
\* composite score, and the other records have the composite score of their
\* own row.
C23_TextScoreLeavesCompositeAbsent ==
    (ret.op = "process_rankings" /\ ValidateData(data) /\ result.total_valid > 0) =>
        \A i \in 1..Len(KeptFrame.rows) :
            Field(result.valid_data.rows[i], COMPREHENSIVE_SCORE)
                = IF HasTextScore(KeptFrame.rows[i]) THEN NA
                  ELSE RowComprehensiveScore(KeptFrame.rows[i], data.columns)

\* C23 witness: the record with the text "N/A" for Bangumi and 1 for Anilist
\* has the composite score 1, the other record its own
C23_Witness ==
    /\ ret.op = "process_rankings"
    /\ ValidateData(data)
    /\ result.total_valid = 2
    /\ data.columns = {ORIGINAL_NAME, NOTES, BANGUMI_SCORE, ANILIST_SCORE}
    /\ data.rows[1][BANGUMI_SCORE] = Str("N/A")
    /\ data.rows[1][ANILIST_SCORE] = Num(1)
    /\ data.rows[2][BANGUMI_SCORE] = Num(2)
    /\ result.valid_data.rows[1][COMPREHENSIVE_SCORE] = Num(Scale)
    /\ result.valid_data.rows[2][COMPREHENSIVE_SCORE].t = "num"

\* 1 + the number of rows with a greater number in column c, for a row with
\* a number there; absent otherwise
CompetitionRank(rows, i, c) ==
    IF Field(rows[i], c).t # "num" THEN NA
    ELSE Num(1 + Cardinality({j \in 1..Len(rows) :
                                 /\ Field(rows[j], c).t = "num"
                                 /\ Field(rows[j], c).v > Field(rows[i], c).v}))

\* C24: when the score column of a platform is missing, process_rankings
\* records a warning and leaves that platform's rank absent for every valid
\* record; the platforms with a score column and the composite score are
\* ranked all the same.
C24_MissingScoreColumnNotFatal ==
    (ret.op = "process_rankings" /\ ValidateData(data) /\ result.total_valid > 0) =>
        LET valid == result.valid_data.rows
        IN  /\ \A k \in 1..Len(PLATFORM_COLUMNS) :
                   LET p == PLATFORM_COLUMNS[k]
                   IN  IF p.score \notin data.columns
                       THEN /\ ("missing score column " \o p.score) \in Range(result.warnings)
                            /\ \A i \in 1..Len(valid) : IsNa(Field(valid[i], p.rank))
                       ELSE \A i \in 1..Len(valid) :
                                Field(valid[i], p.rank) = CompetitionRank(valid, i, p.score)
            /\ \A i \in 1..Len(valid) :
                   Field(valid[i], COMPREHENSIVE_RANKING_COLUMN)
                       = CompetitionRank(valid, i, COMPREHENSIVE_SCORE)

\* C24 witness: without a Bangumi column, the two records are ranked 1 and 2
\* on Anilist and on the composite score, with the warning recorded
C24_Witness ==
    /\ ret.op = "process_rankings"
    /\ ValidateData(data)
    /\ data.columns = {ORIGINAL_NAME, NOTES, ANILIST_SCORE}
    /\ result.total_valid = 2
    /\ ("missing score column " \o BANGUMI_SCORE) \in Range(result.warnings)
    /\ \A i \in 1..2 : IsNa(result.valid_data.rows[i][BANGUMI_RANK])
    /\ \E i \in 1..2 :
           /\ result.valid_data.rows[i][ANILIST_RANK] = Num(1)
           /\ result.valid_data.rows[i][COMPREHENSIVE_RANKING_COLUMN] = Num(1)

\* no platform score cell of the row holds a number
NoScorePresent(row) == \A c \in ScoreColumns : Field(row, c).t # "num"

\* C27: a valid record without any platform score has an absent composite
\* score, not zero, and no composite rank.
C27_NoScoreNoComposite ==
    ret.op = "process_rankings" =>
        \A i \in 1..Len(result.valid_data.rows) :
            NoScorePresent(result.valid_data.rows[i]) =>
                /\ IsNa(Field(result.valid_data.rows[i], COMPREHENSIVE_SCORE))
                /\ IsNa(Field(result.valid_data.rows[i], COMPREHENSIVE_RANKING_COLUMN))

\* C27 witness: of two valid records the one without scores has neither
\* composite score nor composite rank, the other is ranked first
C27_Witness ==
    /\ ret.op = "process_rankings"
    /\ ValidateData(data)
    /\ result.total_valid = 2
    /\ NoScorePresent(result.valid_data.rows[1])
    /\ IsNa(result.valid_data.rows[1][COMPREHENSIVE_SCORE])
    /\ IsNa(result.valid_data.rows[1][COMPREHENSIVE_RANKING_COLUMN])
    /\ result.valid_data.rows[2][COMPREHENSIVE_SCORE].t = "num"
    /\ result.valid_data.rows[2][COMPREHENSIVE_RANKING_COLUMN] = Num(1)

\* C30: the RankingResult of a call is the one a fresh RankingService gives
\* on the same rows, whatever calls came before, and its excluded rows are
\* rows of the call's input.
C30_ResultIndependentOfEarlierCalls ==
    ret.op = "process_rankings" =>
        /\ result = ProcessRankings(data, None).result
        /\ \A i \in 1..Len(result.excluded_data.rows) :
               \E j \in 1..Len(data.rows) :
                   \A c \in data.columns :
                       Field(result.excluded_data.rows[i], c) = data.rows[j][c]

\* C30 witness: the service still holds excluded rows of an earlier call, and
\* the call on rows that fail the validation returns none of them
C30_Witness ==
    /\ ret.op = "process_rankings"
    /\ ret.calls >= 2
    /\ ~ValidateData(data)
    /\ ~excluded_entries.is_none
    /\ ~IsEmpty(excluded_entries.df)
    /\ result.total_excluded = 0

----------------------------------------------------------------------------
(* Claims about the rows the writer writes *)

\* valid holds two records with the same key
ValidHasDuplicateKey ==
    \E i, j \in 1..Len(result.valid_data.rows) :
        /\ i < j
        /\ result.valid_data.rows[i][ORIGINAL_NAME] = result.valid_data.rows[j][ORIGINAL_NAME]

\* the first record of valid with the key key
FirstRecord(key) ==
    LET rows == result.valid_data.rows
    IN  rows[CHOOSE i \in 1..Len(rows) :
                /\ rows[i][ORIGINAL_NAME] = key
                /\ \A j \in 1..(i - 1) : rows[j][ORIGINAL_NAME] # key]

\* C26: when valid holds several records with the same key, every workbook
\* data row with that key holds, under each header that is a field of the
\* records, the value of the first record with the key.
C26_FirstDuplicateWins ==
    (Written /\ ValidHasDuplicateKey) =>
        \A r \in ValidRecordRows :
            \A n \in (DOMAIN FinalColMap(OutputSheet) \cap result.valid_data.columns)
                         \ {ORIGINAL_NAME} :
                CellValue(OutputSheet, r, FinalColMap(OutputSheet)[n])
                    = FirstRecord(CellValue(OutputSheet, r, OutputColumn(ORIGINAL_NAME)))[n]

\* C26 witness: the rows 3 and 4 both carry the key A; row 4, which held the
\* scores 1 and 1, holds the scores 2 and none of the first record
C26_Witness ==
    /\ Written
    /\ ValidHasDuplicateKey
    /\ Len(result.valid_data.rows) = 2
    /\ result.valid_data.rows[1][BANGUMI_SCORE] = Num(2)
    /\ result.valid_data.rows[2][BANGUMI_SCORE] = Num(1)
    /\ CellValue(InputSheet, 4, OutputColumn(BANGUMI_SCORE)) = Num(1)
    /\ CellValue(OutputSheet, 3, OutputColumn(BANGUMI_SCORE)) = Num(2)
    /\ CellValue(OutputSheet, 4, OutputColumn(BANGUMI_SCORE)) = Num(2)
    /\ IsNa(CellValue(OutputSheet, 4, OutputColumn(FILMARKS_SCORE)))

\* the data rows of the sheet the writer holds that have a cell with a value
UsedDataRows ==
    {r \in (header_row + 1)..MaxRow(Relinked) :
        \E c \in 1..MaxColumn(Relinked) : ~IsNa(CellValue(Relinked, r, c))}

\* C28: the value writing changes no used data row other than the rows
\* matched by key: the rows appended for excluded records lie below the last
\* used data row, and the used rows matching no valid record stay as they were.
C28_UnmatchedRowsUntouched ==
    Written =>
        /\ \A r \in UsedDataRows \ WrittenRows :
               OutputSheet.rows[r] = Relinked.rows[r]
        /\ (~IsEmpty(result.excluded_data) /\ UsedDataRows # {}) =>
               ExcludedStartRow(Cardinality(WrittenRows)) > SetMax(UsedDataRows)


----------------------------------------------------------------------------
(* Claims about the destination after a failed commit *)

\* the operations of _atomic_move_file
CommitOperations == {"backup", "install", "remove", "restore"}

\* exactly one operation of the commit failed, over an existing destination
SingleCommitFailure ==
    /\ ret.op = "process_anime_scores"
    /\ DestinationBefore.exists
    /\ Cardinality(ret.failed \cap CommitOperations) = 1
    /\ ret.failed \cap {"backup", "install", "remove"} # {}

\* the workbook the same call writes when no operation fails
NewWorkbook ==
    ProcessAnimeScores(ret.before, None, ret.input_file, ret.output_file, {})
        .files[ret.output_file]

\* C29: when the destination existed and one operation of the commit (the
\* rename to the backup, the rename of the temporary file into place, the
\* deletion of the backup) fails, a file is at the destination afterwards and
\* it is either the previous file or the complete new workbook.
C29_SingleFailureLeavesCompleteFile ==
    SingleCommitFailure =>
        /\ DestinationAfter.exists
        /\ DestinationAfter \in {DestinationBefore, NewWorkbook}

\* C29 witness: the rename to the backup failed; the previous file, which
\* differs from the new workbook, is still the destination
C29_Witness ==
    /\ SingleCommitFailure
    /\ "backup" \in ret.failed
    /\ WriteFailed
    /\ DestinationAfter.exists
    /\ DestinationAfter = DestinationBefore
    /\ NewWorkbook.exists
    /\ NewWorkbook # DestinationBefore


----------------------------------------------------------------------------
(* Claims about the insertion of the rank columns *)

InsertCalled == ret.op = "insert_ranking_columns"
InsertInput == fs[ORIGINAL_WORKBOOK].ws
InsertOutput == fs[TempPath].ws

\* the sheet, the map and the warnings after the first k items of
\* ranking_configs
RECURSIVE AfterInsertions(_, _)
AfterInsertionStep(step, k) ==
    InsertRankingColumn(step.ws, step.current_columns, step.warnings, k)

AfterInsertions(ws, k) ==
    IF k = 0 THEN [ws |-> ws, current_columns |-> HeaderMap(ws), warnings |-> <<>>]
    ELSE AfterInsertionStep(AfterInsertions(ws, k - 1), k)

\* every name of the map points at the column whose header is that name
MapPointsAtHeaders(step) ==
    \A n \in DOMAIN step.current_columns :
        LET c == step.current_columns[n]
        IN  /\ c \in 1..MaxColumn(step.ws)
            /\ Truthy(CellValue(step.ws, header_row, c))
            /\ Strip(CellValue(step.ws, header_row, c).s) = n

\* the platforms whose rank header the output has and the input has not
NewRankItems ==
    {k \in 1..Len(PLATFORM_COLUMNS) :
        /\ PLATFORM_COLUMNS[k].rank \notin Range(ColumnNames(InsertInput))
        /\ PLATFORM_COLUMNS[k].rank \in Range(ColumnNames(InsertOutput))}

\* C22: whatever rank columns are already there and whatever the order of
\* the total columns, every rank column the insertion adds is, in the final
\* header row, the right neighbour of its platform's total column, and after
\* each item of the loop every name of the name -> index map points at the
\* column that has this header.
C22_RankRightOfTotalAndMapExact ==
    InsertCalled =>
        /\ AfterInsertions(InsertInput, Len(PLATFORM_COLUMNS))
               = [ws |-> InsertOutput, current_columns |-> ret.current_columns,
                  warnings |-> ret.warnings]
        /\ \A k \in 0..Len(PLATFORM_COLUMNS) :
               MapPointsAtHeaders(AfterInsertions(InsertInput, k))
        /\ \A k \in NewRankItems :
               \E c \in 2..MaxColumn(InsertOutput) :
                   /\ CellValue(InsertOutput, header_row, c) = Str(PLATFORM_COLUMNS[k].rank)
                   /\ CellValue(InsertOutput, header_row, c - 1)
                          = Str(PLATFORM_COLUMNS[k].total)

\* C22 witness: Filmarks_total left of Bangumi_total, Anilist_Rank already
\* there; two columns went in, each right of its total column, and Notes
\* moved from column 6 to column 8 of the map
C22_Witness ==
    /\ InsertCalled
    /\ InsertInput.rows[header_row]
           = <<Str(ORIGINAL_NAME), Str(FILMARKS_TOTAL), Str(BANGUMI_TOTAL),
               Str(ANILIST_RANK), Str(ANILIST_TOTAL), Str(NOTES)>>
    /\ InsertOutput.rows[header_row]
           = <<Str(ORIGINAL_NAME), Str(FILMARKS_TOTAL), Str(FILMARKS_RANK),
               Str(BANGUMI_TOTAL), Str(BANGUMI_RANK), Str(ANILIST_RANK),
               Str(ANILIST_TOTAL), Str(NOTES)>>
    /\ ret.current_columns[NOTES] = 8
    /\ ret.current_columns[BANGUMI_RANK] = 5


\* the platforms with neither the total column nor the rank column in the
\* header row of the input, and those with the total column only
MissingTotalItems ==
    {k \in 1..Len(PLATFORM_COLUMNS) :
        /\ PLATFORM_COLUMNS[k].total \notin Range(ColumnNames(InputSheet))
        /\ PLATFORM_COLUMNS[k].rank \notin Range(ColumnNames(InputSheet))}

InsertableItems ==
    {k \in 1..Len(PLATFORM_COLUMNS) :
        /\ PLATFORM_COLUMNS[k].total \in Range(ColumnNames(InputSheet))
        /\ PLATFORM_COLUMNS[k].rank \notin Range(ColumnNames(InputSheet))}

\* C25: for a platform whose total column is not in the header row (and
\* whose rank column is not there yet), the writer inserts no rank column
\* and logs a warning; the rank columns of the other platforms that have a
\* total column are still inserted, and the write succeeds.
C25_MissingTotalSkipsWithWarning ==
    (WriteCalled /\ MissingTotalItems # {}) =>
        /\ Written
        /\ \A k \in MissingTotalItems :
               /\ PLATFORM_COLUMNS[k].rank \notin Range(ColumnNames(OutputSheet))
               /\ ("no total column for " \o PLATFORM_COLUMNS[k].rank)
                      \in Range(ret.warnings)
        /\ \A j \in InsertableItems :
               Occurrences(OutputSheet, PLATFORM_COLUMNS[j].rank) = 1
        /\ MaxColumn(OutputSheet) = MaxColumn(InputSheet) + Cardinality(InsertableItems)

\* C25 witness: no Anilist_total and no MyAnimelist_total; both are warned
\* about, and Filmarks_Rank, the last item, is inserted after them
C25_Witness ==
    /\ Written
    /\ ret.runs = 1
    /\ MissingTotalItems = {2, 3}
    /\ "no total column for Anilist_Rank" \in Range(ret.warnings)
    /\ "no total column for Myanimelist_Rank" \in Range(ret.warnings)
    /\ OutputSheet.rows[header_row]
           = <<Str(ORIGINAL_NAME), Str(BANGUMI_SCORE), Str(BANGUMI_TOTAL), Str(BANGUMI_RANK),
               Str(FILMARKS_SCORE), Str(FILMARKS_TOTAL), Str(FILMARKS_RANK),
               Str(BANGUMI_URL), Str(NOTES)>>

====
